---- MODULE Spec2Model ----
(***************************************************************************)
(* Requirement extraction and property matching of the Commercial Real     *)
(* Estate Voice AI backend:                                                *)
(*   app/services/property_matching_service.py  (PropertyMatchingService)  *)
(*   final_web_app.py                           (find_matching_properties, *)
(*                                               analyze_emotion_from_text) *)
(*   app/services/transcription_service.py      (TranscriptionService)     *)
(*                                                                         *)
(* Representation.                                                         *)
(*  - A text is a sequence of lexical tokens: single digit characters,     *)
(*    ",", ".", "$", " " and whole words.  The regular expressions of the  *)
(*    source are evaluated on that sequence with re's leftmost, greedy,    *)
(*    backtracking semantics.                                              *)
(*  - Python numbers (int and float) are fixed-point integers in units of  *)
(*    1/10000, see Fx: 4687.5 is 46875000.                                 *)
(*    Products and quotients are exact up to that unit; the rounding of   *)
(*    binary floating point (3125 * 1.1 = 3437.5000000000005) is not kept. *)
(*  - Python None is the value None below; an optional emotion profile is  *)
(*    <<>> (None) or <<profile>>; an absent key of a profile is None, and   *)
(*    the profile with every key absent is {}.                             *)
(*  - A DataFrame is the sequence of its rows; a row keeps the columns the *)
(*    matching code reads: unique_id, Property Address (a sequence of      *)
(*    words), Size (SF), Rent/SF/Year.                                     *)
(***************************************************************************)
EXTENDS Integers, Sequences, FiniteSets, TLC

VARIABLES
    properties_df,        \* the in-memory catalog (service or web app)
    text,                 \* the joined conversation text / the chat message
    requirements,         \* the requirements dict of the current request
    matching_properties,  \* value returned by _find_matching_properties
    web_matches,          \* value returned by final_web_app.find_matching_properties
    base,                 \* <<>> or <<snapshot>> of an earlier matcher run
    pc,                   \* position of the request in PropertyMatchingService
    web_pc,               \* position of the request in final_web_app
    emotion_data,         \* <<>> (None) or <<the emotion profile>>
    emotion_source,       \* the function that produced emotion_data
    startup,              \* the program that started and the state of data/properties.csv
    calls,                \* the calls served since startup, oldest first
    upload,               \* the UploadFile of the request that read last
    response,             \* the answer of the endpoint or service method called
    pending               \* the requests suspended at an `await audio_file.read()`

vars ==
    <<properties_df, text, requirements, matching_properties, web_matches, base, pc, web_pc,
      emotion_data, emotion_source, startup, calls, upload, response, pending>>

\* What a single request of the core leaves alone: the startup record, the
\* log of calls, the upload, the endpoint response and the suspended requests.
session == <<startup, calls, upload, response, pending>>

----------------------------------------------------------------------------
(* Numbers *)

None == -1

Fx(n) == n * 10000

Min2(a, b) == IF a <= b THEN a ELSE b

\* Python truthiness of an Optional[number]: None and 0 are both falsy.
Truthy(x) == x # None /\ x # 0

----------------------------------------------------------------------------
(* Catalog *)

PROP001 ==
    [unique_id |-> "PROP001", address |-> <<"123", "Innovation", "Drive", "Downtown">>,
     size |-> Fx(2500), rent |-> Fx(28)]

PROP002 ==
    [unique_id |-> "PROP002", address |-> <<"456", "Tech", "Plaza", "Midtown">>,
     size |-> Fx(3200), rent |-> Fx(32)]

PROP003 ==
    [unique_id |-> "PROP003", address |-> <<"789", "Business", "Center", "Uptown">>,
     size |-> Fx(1800), rent |-> Fx(25)]

PROP004 ==
    [unique_id |-> "PROP004", address |-> <<"321", "Creative", "Commons", "Arts", "District">>,
     size |-> Fx(2000), rent |-> Fx(26)]

PROP005 ==
    [unique_id |-> "PROP005", address |-> <<"654", "Executive", "Tower", "Financial", "District">>,
     size |-> Fx(5000), rent |-> Fx(42)]

\* PropertyMatchingService._create_sample_data
SampleData == <<PROP001, PROP002, PROP003>>

\* final_web_app.load_properties, the fallback frame
WebSampleData == <<PROP001, PROP002, PROP003, PROP004, PROP005>>

\* A frame as read from data/properties.csv: the same kind of rows in another
\* order (the CSV's content is not fixed by the code).
CsvData == <<PROP005, PROP003, PROP004, PROP001>>

EmptyData == <<>>

\* A second suite listed under the unique_id of PROP001.
PROP001B == [PROP001 EXCEPT !.size = Fx(1800), !.rent = Fx(25)]

\* A frame as read from a data/properties.csv in which a unique_id occurs
\* twice (nothing in load_properties looks at the column).
DuplicateIdData == <<PROP002, PROP001, PROP001B, PROP003>>

Catalogs == {SampleData, WebSampleData, CsvData, EmptyData}

UpperCase ==
    {"A", "B", "C", "D", "E", "F", "G", "H", "I", "J", "K", "L", "M", "N", "O", "P", "Q",
     "R", "S", "T", "U", "V", "W", "X", "Y", "Z"}

\* str.lower() on one character
LowerChar(c) ==
    IF c \notin UpperCase THEN c
    ELSE
         CASE c = "A" -> "a"
           [] c = "B" -> "b"
           [] c = "C" -> "c"
           [] c = "D" -> "d"
           [] c = "E" -> "e"
           [] c = "F" -> "f"
           [] c = "G" -> "g"
           [] c = "H" -> "h"
           [] c = "I" -> "i"
           [] c = "J" -> "j"
           [] c = "K" -> "k"
           [] c = "L" -> "l"
           [] c = "M" -> "m"
           [] c = "N" -> "n"
           [] c = "O" -> "o"
           [] c = "P" -> "p"
           [] c = "Q" -> "q"
           [] c = "R" -> "r"
           [] c = "S" -> "s"
           [] c = "T" -> "t"
           [] c = "U" -> "u"
           [] c = "V" -> "v"
           [] c = "W" -> "w"
           [] c = "X" -> "x"
           [] c = "Y" -> "y"
           [] c = "Z" -> "z"

RECURSIVE LowerChars(_, _)
LowerChars(w, i) ==
    IF i > Len(w) THEN "" ELSE LowerChar(SubSeq(w, i, i)) \o LowerChars(w, i + 1)

\* str.lower() on a word: the word itself when it has no upper-case letter
LowerWord(w) ==
    IF \A i \in 1..Len(w) : SubSeq(w, i, i) \notin UpperCase THEN w ELSE LowerChars(w, 1)

\* Series.str.contains(term, case=False) / `keyword.lower() in property_text`
\* for a one-word term.
\* The words of the addresses of the catalogs, and their lower-case forms
\* computed once.
CatalogWords ==
    UNION {UNION {{df[r].address[i] : i \in 1..Len(df[r].address)} : r \in 1..Len(df)} :
           df \in Catalogs}

LowerCatalogWord == [w \in CatalogWords |-> LowerWord(w)]

AddressContains(address, term) ==
    LET term_lower == LowerWord(term)
    IN  \E i \in 1..Len(address) :
            (IF address[i] \in CatalogWords THEN LowerCatalogWord[address[i]]
             ELSE LowerWord(address[i])) = term_lower

----------------------------------------------------------------------------
(* PropertyMatchingService._find_matching_properties *)

TopN == 3

HeadN(s, n) == SubSeq(s, 1, Min2(Len(s), n))

ApplyMinSize(df, req) ==
    IF Truthy(req.min_size)
    THEN SelectSeq(df, LAMBDA r : r.size >= req.min_size)
    ELSE df

\* The max_size filter written with the comparison of the min_size filter.
ApplyMaxSizeAsMin(df, req) ==
    IF Truthy(req.max_size)
    THEN SelectSeq(df, LAMBDA r : r.size >= req.max_size)
    ELSE df

ApplyMaxSize(df, req) ==
    IF Truthy(req.max_size)
    THEN SelectSeq(df, LAMBDA r : r.size <= req.max_size)
    ELSE df

ApplyMaxRent(df, req) ==
    IF Truthy(req.max_rent_per_sf)
    THEN SelectSeq(df, LAMBDA r : r.rent <= req.max_rent_per_sf)
    ELSE df

\* With the location filter applied to the whole catalog instead of the rows
\* filtered so far.
ApplyLocationOnCatalog(df, req) ==
    IF Len(req.preferred_locations) > 0
    THEN SelectSeq(properties_df, LAMBDA r :
             \E k \in 1..Len(req.preferred_locations) :
                 AddressContains(r.address, req.preferred_locations[k]))
    ELSE df

ApplyLocation(df, req) ==
    IF Len(req.preferred_locations) > 0
    THEN SelectSeq(df, LAMBDA r :
             \E k \in 1..Len(req.preferred_locations) :
                 AddressContains(r.address, req.preferred_locations[k]))
    ELSE df

\* filtered_df after the four filters, rows in catalog order.
FilteredDf(df, req) ==
    ApplyLocation(ApplyMaxRent(ApplyMaxSize(ApplyMinSize(df, req), req), req), req)

\* sum(1 for keyword in culture_keywords if keyword.lower() in property_text)
CultureScore(row, req) ==
    Cardinality({k \in 1..Len(req.culture_keywords) :
                    AddressContains(row.address, req.culture_keywords[k])})

WithCultureScore(df, req) ==
    [i \in 1..Len(df) |->
        [unique_id |-> df[i].unique_id, address |-> df[i].address,
         size |-> df[i].size, rent |-> df[i].rent,
         culture_score |-> CultureScore(df[i], req)]]

RowOrders(n) ==
    {p \in [1..n -> 1..n] : \A i, j \in 1..n : i # j => p[i] # p[j]}

\* DataFrame.sort_values('culture_score', ascending=False) with the default
\* kind='quicksort': the rows come out by descending score, and the order of
\* rows with equal score is whatever the unstable sort leaves (pandas
\* documents only 'mergesort'/'stable' as stable).
SortValuesDescending(df) ==
    {[i \in 1..Len(df) |-> df[p[i]]] :
        p \in {q \in RowOrders(Len(df)) :
                 \A i \in 1..(Len(df) - 1) :
                     df[q[i]].culture_score >= df[q[i + 1]].culture_score}}

\* The rules by which an argsort can order rows of equal score: a rank for
\* every position of the frame it sorts, up to the longest catalog the
\* service loads. Rows of equal score come out by ascending rank.
SortKernels == RowOrders(Len(CsvData))

\* The rule of a stable sort: rows of equal score keep their order.
StableArgsort == [i \in 1..Len(CsvData) |-> i]

\* Row a comes before row b in the sorted frame.
SortsBefore(argsort, df, a, b) ==
    \/ df[a].culture_score > df[b].culture_score
    \/ df[a].culture_score = df[b].culture_score /\ argsort[a] < argsort[b]

\* sort_values('culture_score', ascending=False) within one process: the
\* argsort behind it has no random or stateful part, so the order it leaves
\* is a function of the column it sorts; `argsort` is the rule of the build
\* the process runs on. Each result is one of SortValuesDescending(df).
SortValuesDescendingBy(argsort, df) ==
    [i \in 1..Len(df) |->
        df[CHOOSE a \in 1..Len(df) :
               Cardinality({b \in 1..Len(df) : SortsBefore(argsort, df, b, a)}) = i - 1]]

\* filtered_df.head(3)
HeadRows(df) == HeadN(df, TopN)

\* With the sample rows searched when there is no catalog, instead of the
\* early return.
FindMatchingPropertiesOnSample(df, req) ==
    IF Len(df) = 0
    THEN {HeadRows(FilteredDf(SampleData, req))}
    ELSE IF Len(req.culture_keywords) > 0
         THEN {HeadRows(s) : s \in SortValuesDescending(WithCultureScore(FilteredDf(df, req), req))}
         ELSE {HeadRows(FilteredDf(df, req))}

\* _find_matching_properties in a process whose sort follows `argsort`.
FindMatchingPropertiesBy(argsort, df, req) ==
    IF Len(df) = 0
    THEN <<>>
    ELSE IF Len(req.culture_keywords) > 0
         THEN HeadRows(SortValuesDescendingBy(argsort, WithCultureScore(FilteredDf(df, req), req)))
         ELSE HeadRows(FilteredDf(df, req))

\* The values _find_matching_properties can return.
FindMatchingProperties(df, req) ==
    IF Len(df) = 0
    THEN {<<>>}
    ELSE IF Len(req.culture_keywords) > 0
         THEN {HeadRows(s) : s \in SortValuesDescending(WithCultureScore(FilteredDf(df, req), req))}
         ELSE {HeadRows(FilteredDf(df, req))}

----------------------------------------------------------------------------
(* Texts and the regular expressions of the source, on token sequences *)

Digits == {"0", "1", "2", "3", "4", "5", "6", "7", "8", "9"}

IsDigit(c) == c \in Digits

DigitVal(c) ==
    CASE c = "0" -> 0 [] c = "1" -> 1 [] c = "2" -> 2 [] c = "3" -> 3 [] c = "4" -> 4
      [] c = "5" -> 5 [] c = "6" -> 6 [] c = "7" -> 7 [] c = "8" -> 8 [] c = "9" -> 9

\* full_conversation.lower() / message.lower()
RECURSIVE LowerFrom(_, _)
LowerFrom(t, i) ==
    IF i > Len(t) THEN <<>> ELSE <<LowerWord(t[i])>> \o LowerFrom(t, i + 1)

LowerText(t) == LowerFrom(t, 1)

\* The token at position i, "" past the end of the text.
TokenAt(t, i) == IF i >= 1 /\ i <= Len(t) THEN t[i] ELSE ""

\* \d+ : the position after the digit run that starts at i (i itself if none)
RECURSIVE DigitRunEnd(_, _)
DigitRunEnd(t, i) ==
    IF i <= Len(t) /\ IsDigit(t[i]) THEN DigitRunEnd(t, i + 1) ELSE i

\* \s* : the position after the white space that starts at i
RECURSIVE SkipSpaces(_, _)
SkipSpaces(t, i) ==
    IF i <= Len(t) /\ t[i] = " " THEN SkipSpaces(t, i + 1) ELSE i

\* \d{n} at i
AllDigits(t, i, n) ==
    /\ i + n - 1 <= Len(t)
    /\ \A k \in i..(i + n - 1) : IsDigit(t[k])

\* (?:,\d{3})* : how many ",ddd" groups follow each other from i
RECURSIVE GroupRun(_, _)
GroupRun(t, i) ==
    IF TokenAt(t, i) = "," /\ AllDigits(t, i + 1, 3) THEN 1 + GroupRun(t, i + 4) ELSE 0

\* \d{1,3}(?:,\d{3})* at i: the pairs <<d, g>> of a digit count and a group
\* count the engine can settle on; it prefers more digits, then more groups.
ThousandsCands(t, i) ==
    UNION {{<<d, g>> : g \in 0..GroupRun(t, i + d)} : d \in {n \in 1..3 : AllDigits(t, i, n)}}

Preferred(cands) ==
    CHOOSE c \in cands : \A e \in cands : c[1] > e[1] \/ (c[1] = e[1] /\ c[2] >= e[2])

ThousandsEnd(i, c) == i + c[1] + 4 * c[2]

NoMatch == [found |-> FALSE, cap |-> <<>>, end |-> 0]

Matched(t, from, to, next) == [found |-> TRUE, cap |-> SubSeq(t, from, to - 1), end |-> next]

SizeUnits == {"sq ft", "square feet", "sf"}

BudgetUnits == {"sq ft", "square foot", "sf"}

WebBudgetUnits == {"sq ft", "square foot"}

\* (?:per\s*)? : the position after an optional "per" and its white space
SkipPer(t, i) == IF TokenAt(t, i) = "per" THEN SkipSpaces(t, i + 1) ELSE i

\* r'(\d{1,3}(?:,\d{3})*)\s*UNIT' anchored at i, UNIT one of `units`, after an
\* optional "per" when `per` holds.
AfterThousands(t, i, c, per) ==
    IF per THEN SkipPer(t, SkipSpaces(t, ThousandsEnd(i, c)))
    ELSE SkipSpaces(t, ThousandsEnd(i, c))

MatchedThousands(t, i, c, per) ==
    Matched(t, i, ThousandsEnd(i, c), AfterThousands(t, i, c, per) + 1)

PreferredMatch(t, i, ok, per) ==
    IF ok = {} THEN NoMatch ELSE MatchedThousands(t, i, Preferred(ok), per)

ThousandsThenUnit(t, i, units, per) ==
    IF ~IsDigit(TokenAt(t, i)) THEN NoMatch
    ELSE PreferredMatch(t, i,
             {c \in ThousandsCands(t, i) : TokenAt(t, AfterThousands(t, i, c, per)) \in units},
             per)

\* r'(\d+)\s*WORD' anchored at i
DigitsThenWord(t, i, word) ==
    LET e == DigitRunEnd(t, i)
        k == SkipSpaces(t, e)
    IN  IF e > i /\ TokenAt(t, k) = word THEN Matched(t, i, e, k + 1) ELSE NoMatch

\* r'team\s*of\s*(\d+)' anchored at i
TeamOf(t, i) ==
    LET o == SkipSpaces(t, i + 1)
        d == SkipSpaces(t, o + 1)
        e == DigitRunEnd(t, d)
    IN  IF TokenAt(t, i) = "team" /\ TokenAt(t, o) = "of" /\ e > d
        THEN Matched(t, d, e, e) ELSE NoMatch

\* r'(\d+)\s*person\s*team' anchored at i
PersonTeam(t, i) ==
    LET e == DigitRunEnd(t, i)
        p == SkipSpaces(t, e)
        m == SkipSpaces(t, p + 1)
    IN  IF e > i /\ TokenAt(t, p) = "person" /\ TokenAt(t, m) = "team"
        THEN Matched(t, i, e, m + 1) ELSE NoMatch

\* r'\$(\d+(?:\.\d{2})?)\s*(?:per\s*)?UNIT' anchored at i
DollarsPerUnit(t, i) ==
    LET e == DigitRunEnd(t, i + 1)
        f == IF TokenAt(t, e) = "." /\ AllDigits(t, e + 1, 2) THEN e + 3 ELSE e
        u == SkipPer(t, SkipSpaces(t, f))
    IN  IF TokenAt(t, i) = "$" /\ e > i + 1 /\ TokenAt(t, u) \in BudgetUnits
        THEN Matched(t, i + 1, f, u + 1) ELSE NoMatch

\* r'\$(\d+)\s*(?:per\s*)?(?:sq\.?\s*ft\.?|square\s*foot)' anchored at i
WebDollarsPerUnit(t, i) ==
    LET e == DigitRunEnd(t, i + 1)
        u == SkipPer(t, SkipSpaces(t, e))
    IN  IF TokenAt(t, i) = "$" /\ e > i + 1 /\ TokenAt(t, u) \in WebBudgetUnits
        THEN Matched(t, i + 1, e, u + 1) ELSE NoMatch

\* r'\$(\d{1,3}(?:,\d{3})*)\s*(?:per\s*)?month' anchored at i
DollarsPerMonth(t, i) ==
    IF TokenAt(t, i) = "$" THEN ThousandsThenUnit(t, i + 1, {"month"}, TRUE) ELSE NoMatch

\* .*?\$ followed by a digit: the first "$" at or after i that a digit follows
\* (0 if none)
RECURSIVE NextDollarDigit(_, _)
NextDollarDigit(t, i) ==
    IF i > Len(t) THEN 0
    ELSE IF t[i] = "$" /\ IsDigit(TokenAt(t, i + 1)) THEN i
    ELSE NextDollarDigit(t, i + 1)

\* r'budget.*?\$(\d{1,3}(?:,\d{3})*)' anchored at i
BudgetDollars(t, i) ==
    LET d == NextDollarDigit(t, i + 1)
        c == Preferred(ThousandsCands(t, d + 1))
    IN  IF TokenAt(t, i) = "budget" /\ d > 0
        THEN Matched(t, d + 1, ThousandsEnd(d + 1, c), ThousandsEnd(d + 1, c))
        ELSE NoMatch

\* r'budget.*?\$(\d+)' anchored at i
WebBudgetDollars(t, i) ==
    LET d == NextDollarDigit(t, i + 1)
    IN  IF TokenAt(t, i) = "budget" /\ d > 0
        THEN Matched(t, d + 1, DigitRunEnd(t, d + 1), DigitRunEnd(t, d + 1))
        ELSE NoMatch

\* r'around\s*\$(\d+)' and r'under\s*\$(\d+)' anchored at i
WordDollars(t, i, word) ==
    LET d == SkipSpaces(t, i + 1)
        e == DigitRunEnd(t, d + 1)
    IN  IF TokenAt(t, i) = word /\ TokenAt(t, d) = "$" /\ e > d + 1
        THEN Matched(t, d + 1, e, e) ELSE NoMatch

MatchAt(pat, t, i) ==
    CASE pat = "size_sqft"      -> ThousandsThenUnit(t, i, SizeUnits, FALSE)
      [] pat = "people"         -> DigitsThenWord(t, i, "people")
      [] pat = "team"           -> TeamOf(t, i)
      [] pat = "employees"      -> DigitsThenWord(t, i, "employees")
      [] pat = "person_team"    -> PersonTeam(t, i)
      [] pat = "budget_per_sf"  -> DollarsPerUnit(t, i)
      [] pat = "budget_month"   -> DollarsPerMonth(t, i)
      [] pat = "budget_generic" -> BudgetDollars(t, i)
      [] pat = "web_per_sf"     -> WebDollarsPerUnit(t, i)
      [] pat = "web_budget"     -> WebBudgetDollars(t, i)
      [] pat = "web_around"     -> WordDollars(t, i, "around")
      [] pat = "web_under"      -> WordDollars(t, i, "under")

\* re.findall(pattern, text): the captures of the non-overlapping matches,
\* scanning from position i.
RECURSIVE FindAll(_, _, _)
FindAllStep(pat, t, i, m) ==
    IF m.found THEN <<m.cap>> \o FindAll(pat, t, m.end) ELSE FindAll(pat, t, i + 1)

FindAll(pat, t, i) ==
    IF i > Len(t) THEN <<>> ELSE FindAllStep(pat, t, i, MatchAt(pat, t, i))

\* int(match.replace(',', ''))
RECURSIVE ToIntFrom(_, _, _)
ToIntFrom(cap, i, acc) ==
    IF i > Len(cap) THEN acc
    ELSE IF cap[i] = "," THEN ToIntFrom(cap, i + 1, acc)
    ELSE ToIntFrom(cap, i + 1, acc * 10 + DigitVal(cap[i]))

ToInt(cap) == ToIntFrom(cap, 1, 0)

\* float(match.replace(',', '')) for a capture with at most one "." followed
\* by two digits
ToFloat(cap) ==
    IF \E i \in 1..Len(cap) : cap[i] = "."
    THEN LET dot == CHOOSE i \in 1..Len(cap) : cap[i] = "."
         IN  Fx(ToInt(SubSeq(cap, 1, dot - 1))) + 100 * ToInt(SubSeq(cap, dot + 1, Len(cap)))
    ELSE Fx(ToInt(cap))

----------------------------------------------------------------------------
(* PropertyMatchingService._extract_requirements *)

EmptyRequirements ==
    [min_size |-> None, max_size |-> None, max_rent_per_sf |-> None,
     preferred_locations |-> <<>>, company_size |-> None, industry |-> None,
     culture_keywords |-> <<>>, must_haves |-> <<>>, nice_to_haves |-> <<>>]

SizePatterns == <<"size_sqft", "people", "team", "employees">>

BudgetPatternsGenericFirst == <<"budget_generic", "budget_per_sf", "budget_month">>

BudgetPatterns == <<"budget_per_sf", "budget_month", "budget_generic">>

LocationKeywords == <<"downtown", "uptown", "midtown", "district", "center">>

CultureKeywords ==
    <<"collaborative", "modern", "traditional", "creative", "corporate",
      "startup", "professional", "casual", "innovative", "tech">>

SfPerPerson == 125

\* The test without its 'employees' disjunct.
IsHeadcountPatternWithoutEmployees(pat) == pat \in {"people", "team"}

\* The test without its 'people' disjunct.
IsHeadcountPatternWithoutPeople(pat) == pat \in {"team", "employees"}

\* 'people' in pattern or 'team' in pattern or 'employees' in pattern
IsHeadcountPattern(pat) == pat \in {"people", "team", "employees"}

\* The sizes one pattern contributes, in match order.
RECURSIVE SizesOfCaptures(_, _, _)
SizesOfCaptures(pat, caps, k) ==
    IF k > Len(caps) THEN <<>>
    ELSE <<IF IsHeadcountPattern(pat) THEN ToInt(caps[k]) * SfPerPerson ELSE ToInt(caps[k])>>
         \o SizesOfCaptures(pat, caps, k + 1)

SizesOfPattern(pat, t) == SizesOfCaptures(pat, FindAll(pat, t, 1), 1)

\* The list `sizes` after the loop over size_patterns.
CollectSizes(t) ==
    SizesOfPattern(SizePatterns[1], t) \o SizesOfPattern(SizePatterns[2], t)
        \o SizesOfPattern(SizePatterns[3], t) \o SizesOfPattern(SizePatterns[4], t)

SeqMin(s) == CHOOSE x \in {s[i] : i \in 1..Len(s)} : \A j \in 1..Len(s) : x <= s[j]

SeqMax(s) == CHOOSE x \in {s[i] : i \in 1..Len(s)} : \A j \in 1..Len(s) : x >= s[j]

\* max(sizes) if len(sizes) > 1 else min(sizes) * 1.5
MaxSizeOf(sizes) ==
    IF Len(sizes) > 1 THEN Fx(SeqMax(sizes)) ELSE (Fx(SeqMin(sizes)) * 3) \div 2

\* The first budget pattern, from the k-th on, that matches decides the budget.
RECURSIVE BudgetFrom(_, _)
BudgetOfMatches(t, k, caps) ==
    IF Len(caps) > 0
    THEN IF BudgetPatterns[k] = "budget_month"
         THEN (ToFloat(caps[1]) * 12) \div 2000
         ELSE ToFloat(caps[1])
    ELSE BudgetFrom(t, k + 1)

BudgetFrom(t, k) ==
    IF k > Len(BudgetPatterns) THEN None
    ELSE BudgetOfMatches(t, k, FindAll(BudgetPatterns[k], t, 1))

\* `keyword in text_lower` for a one-word keyword
InText(t, keyword) == \E i \in 1..Len(t) : t[i] = keyword

\* The requirements dict built from text_lower and the collected sizes.
RequirementsOf(text_lower, sizes) ==
    [EmptyRequirements EXCEPT
        !.min_size = IF Len(sizes) > 0 THEN Fx(SeqMin(sizes)) ELSE None,
        !.max_size = IF Len(sizes) > 0 THEN MaxSizeOf(sizes) ELSE None,
        !.max_rent_per_sf = BudgetFrom(text_lower, 1),
        !.preferred_locations =
            SelectSeq(LocationKeywords, LAMBDA k : InText(text_lower, k)),
        !.culture_keywords =
            SelectSeq(CultureKeywords, LAMBDA k : InText(text_lower, k))]

ExtractFromLower(text_lower) == RequirementsOf(text_lower, CollectSizes(text_lower))

ExtractRequirements(t) == ExtractFromLower(LowerText(t))

----------------------------------------------------------------------------
(* PropertyMatchingService._apply_emotion_filters *)

\* n hundredths: 0.7 is Pct(70)
Pct(n) == n * 100

\* dict.get(key, default); an absent key is written None
Get(v, default) == IF v = None THEN default ELSE v

\* The profile {}: no key is present.
EmptyProfile ==
    [emotion_score |-> None, enthusiasm_level |-> None,
     tone_analysis |-> [professional |-> None, excited |-> None,
                        confident |-> None, uncertain |-> None]]

\* `if emotion_data:` / `emotion_data or ...`: None and {} are both falsy.
ProfileTruthy(emotion) == emotion # <<>> /\ emotion[1] # EmptyProfile

\* requirements['max_rent_per_sf'] *= 1.2
ScaleMaxRent(x) == (x * 12) \div 10

ScaleMaxSizeDown(x) == (x * 9) \div 10

\* requirements['max_size'] *= 1.1
ScaleMaxSize(x) == (x * 11) \div 10

IsHighEnthusiasmInclusive(emotion) == Get(emotion.enthusiasm_level, Pct(50)) >= Pct(70)

\* enthusiasm_level > 0.7, enthusiasm_level = emotion_data.get('enthusiasm_level', 0.5)
IsHighEnthusiasm(emotion) == Get(emotion.enthusiasm_level, Pct(50)) > Pct(70)

ApplyEnthusiasm(req, emotion) ==
    IF IsHighEnthusiasm(emotion)
    THEN [req EXCEPT !.max_rent_per_sf = IF Truthy(@) THEN ScaleMaxRent(@) ELSE @,
                     !.max_size = IF Truthy(@) THEN ScaleMaxSize(@) ELSE @]
    ELSE req

ExcitedKeywords == <<"modern", "innovative", "tech">>

ProfessionalKeywords == <<"professional", "corporate">>

IsExcitedToneInclusive(emotion) == Get(emotion.tone_analysis.excited, 0) >= Pct(60)

\* tone_analysis.get('excited', 0) > 0.6
IsExcitedTone(emotion) == Get(emotion.tone_analysis.excited, 0) > Pct(60)

\* tone_analysis.get('professional', 0) > 0.7
IsProfessionalTone(emotion) == Get(emotion.tone_analysis.professional, 0) > Pct(70)

ApplyExcitedTone(req, emotion) ==
    IF IsExcitedTone(emotion)
    THEN [req EXCEPT !.culture_keywords = @ \o ExcitedKeywords]
    ELSE req

ApplyProfessionalTone(req, emotion) ==
    IF IsProfessionalTone(emotion)
    THEN [req EXCEPT !.culture_keywords = @ \o ProfessionalKeywords]
    ELSE req

ApplyEmotionFilters(req, emotion) ==
    ApplyProfessionalTone(ApplyExcitedTone(ApplyEnthusiasm(req, emotion), emotion), emotion)

----------------------------------------------------------------------------
(* Emotion analysis: final_web_app.analyze_emotion_from_text and            *)
(* TranscriptionService._basic_emotion_analysis, _get_mock_transcription   *)

WebEnthusiasmKeywords ==
    <<"excited", "love", "amazing", "perfect", "great", "fantastic", "wow", "awesome">>

WebProfessionalKeywords ==
    <<"need", "require", "business", "professional", "office", "company", "corporate">>

WebUncertaintyKeywords ==
    <<"maybe", "perhaps", "not sure", "uncertain", "think", "might", "possibly">>

WebConfidenceKeywords ==
    <<"definitely", "certainly", "absolutely", "sure", "confident", "know", "clear">>

LegacyEnthusiasmKeywords == <<"excited", "love", "amazing", "perfect", "great", "fantastic">>

LegacyProfessionalKeywords == <<"need", "require", "business", "professional", "office">>

LegacyUncertaintyKeywords == <<"maybe", "perhaps", "not sure", "uncertain", "hmm">>

\* The string a token sequence stands for.
RECURSIVE JoinFrom(_, _)
JoinFrom(t, i) == IF i > Len(t) THEN "" ELSE t[i] \o JoinFrom(t, i + 1)

JoinText(t) == JoinFrom(t, 1)

\* `keyword in s` on strings: s has keyword as a substring
Contains(s, keyword) ==
    \E i \in 1..(Len(s) - Len(keyword) + 1) : SubSeq(s, i, i + Len(keyword) - 1) = keyword

\* `word in text_lower`
KeywordInText(t, keyword) == Contains(JoinText(t), keyword)

\* sum(1 for word in keywords if word in text_lower)
KeywordCount(t, keywords) ==
    LET text_lower == JoinText(t)
    IN  Cardinality({k \in 1..Len(keywords) : Contains(text_lower, keywords[k])})

\* The tokens that hold a blank.
TwoWordTokens == {"sq ft", "square feet", "square foot"}

\* len(text_lower.split()): tokens written without a blank between them form
\* one word.
SplitCount(t) ==
    Cardinality({i \in 1..Len(t) : t[i] # " " /\ (i = 1 \/ t[i - 1] = " ")})
    + Cardinality({i \in 1..Len(t) : t[i] \in TwoWordTokens})

\* min(count / words * factor, 1.0)
LevelOf(count, words, factor) == Min2(Fx(count * factor) \div words, Fx(1))

ClampNone(x) == x

\* max(0.0, min(1.0, x))
Clamp(x) == IF x < 0 THEN 0 ELSE Min2(x, Fx(1))

WebProfile(e, p, u, c) ==
    [emotion_score |-> Clamp(Pct(50) + ((e + c - u) * 3) \div 10),
     enthusiasm_level |-> e,
     voice_pace |-> Fx(1) + ((e - Pct(50)) * 4) \div 10,
     tone_analysis |-> [professional |-> p, excited |-> e, confident |-> c, uncertain |-> u]]

WebLevels(t, words) ==
    WebProfile(LevelOf(KeywordCount(t, WebEnthusiasmKeywords), words, 8),
               LevelOf(KeywordCount(t, WebProfessionalKeywords), words, 5),
               LevelOf(KeywordCount(t, WebUncertaintyKeywords), words, 8),
               LevelOf(KeywordCount(t, WebConfidenceKeywords), words, 8))

\* word_count = max(len(text_lower.split()), 1)
WebAnalysisOfLower(t) == WebLevels(t, IF SplitCount(t) > 1 THEN SplitCount(t) ELSE 1)

AnalyzeEmotionFromText(message) == WebAnalysisOfLower(LowerText(message))

LegacyProfile(e, p, u) ==
    [emotion_score |-> Pct(50) + (e - u) \div 2,
     enthusiasm_level |-> e,
     voice_pace |-> Fx(1),
     tone_analysis |-> [professional |-> p, excited |-> e, confident |-> Fx(1) - u,
                        uncertain |-> u]]

LegacyLevels(t, total_words) ==
    IF total_words > 0
    THEN LegacyProfile(LevelOf(KeywordCount(t, LegacyEnthusiasmKeywords), total_words, 10),
                       LevelOf(KeywordCount(t, LegacyProfessionalKeywords), total_words, 10),
                       LevelOf(KeywordCount(t, LegacyUncertaintyKeywords), total_words, 10))
    ELSE LegacyProfile(Pct(50), Pct(50), Pct(30))

LegacyAnalysisOfLower(t) == LegacyLevels(t, SplitCount(t))

BasicEmotionAnalysis(transcript) == LegacyAnalysisOfLower(LowerText(transcript))

\* _get_mock_transcription
MockTranscript ==
    <<"I'm", " ", "looking", " ", "for", " ", "office", " ", "space", " ", "for", " ",
      "my", " ", "growing", " ", "business", ".", " ", "We", " ", "need", " ",
      "something", " ", "modern", " ", "and", " ", "professional", ".">>

MockProfile ==
    [emotion_score |-> Pct(70), enthusiasm_level |-> Pct(60), voice_pace |-> Fx(1),
     tone_analysis |-> [professional |-> Pct(80), excited |-> Pct(50), confident |-> Pct(70),
                        uncertain |-> Pct(20)]]

\* mock_transcripts of final_web_app.transcribe_audio
MockTranscripts ==
    <<
      <<"I", " ", "need", " ", "office", " ", "space", " ", "for", " ", "my", " ", "2",
        "5", " ", "person", " ", "tech", " ", "startup", ".", " ", "We're", " ",
        "looking", " ", "for", " ", "something", " ", "modern", " ", "and", " ",
        "collaborative", " ", "downtown", ".">>,
      <<"We", " ", "need", " ", "professional", " ", "office", " ", "space", " ",
        "for", " ", "our", " ", "law", " ", "firm", ".", " ", "Private", " ",
        "offices", " ", "and", " ", "conference", " ", "rooms", " ", "are", " ",
        "essential", ".", " ", "Budget", " ", "around", " ", "$", "4", "0", " ", "per",
        " ", "square foot", ".">>,
      <<"Looking", " ", "for", " ", "creative", " ", "workspace", " ", "for", " ", "1",
        "5", " ", "people", " ", "in", " ", "the", " ", "arts", " ", "district", ".",
        " ", "We", " ", "want", " ", "something", " ", "inspiring", " ", "and", " ",
        "unique", ".">>,
      <<"Need", " ", "large", " ", "corporate", " ", "space", " ", "for", " ", "5",
        "0", " ", "employees", " ", "in", " ", "the", " ", "financial", " ",
        "district", ".", " ", "Professional", " ", "environment", " ", "is", " ",
        "very", " ", "important", ".">>
    >>

----------------------------------------------------------------------------
(* final_web_app.find_matching_properties *)

PeoplePatterns == <<"people", "team", "employees", "person_team">>

WebBudgetPatterns == <<"web_per_sf", "web_budget", "web_around", "web_under">>

\* location_keywords.items(), in insertion order
WebLocationKeywords ==
    <<[keyword |-> "downtown", location |-> "Downtown"],
      [keyword |-> "midtown", location |-> "Midtown"],
      [keyword |-> "uptown", location |-> "Uptown"],
      [keyword |-> "financial", location |-> "Financial"],
      [keyword |-> "tech", location |-> "Tech"],
      [keyword |-> "creative", location |-> "Creative"],
      [keyword |-> "arts", location |-> "Arts"]>>

\* The capture of the first pattern of `pats`, from the k-th on, that
\* re.search finds in the text; <<>> if none does.
RECURSIVE FirstSearch(_, _, _)
FirstOfMatches(pats, t, k, caps) ==
    IF Len(caps) > 0 THEN <<caps[1]>> ELSE FirstSearch(pats, t, k + 1)

FirstSearch(pats, t, k) ==
    IF k > Len(pats) THEN <<>> ELSE FirstOfMatches(pats, t, k, FindAll(pats[k], t, 1))

CountOf(m) == IF m = <<>> THEN <<>> ELSE <<ToInt(m[1])>>

\* people_count of the first people pattern that matches: <<>> or <<count>>
WebPeopleCount(t) == CountOf(FirstSearch(PeoplePatterns, t, 1))

AmountOf(m) == IF m = <<>> THEN <<>> ELSE <<Fx(ToInt(m[1]))>>

\* budget of the first budget pattern that matches: <<>> or <<budget>>
WebBudget(t) == AmountOf(FirstSearch(WebBudgetPatterns, t, 1))

\* min_size = people_count * 100, max_size = people_count * 200
InWebSizeRange(r, people_count) ==
    r.size >= Fx(people_count * 100) /\ r.size <= Fx(people_count * 200)

\* Rent/SF/Year <= budget * 1.2
InWebBudget(r, budget) == r.rent * 10 <= budget * 12

RowsInSizeRange(df, people) ==
    IF people = <<>> THEN <<>> ELSE SelectSeq(df, LAMBDA r : InWebSizeRange(r, people[1]))

WebSizeMatches(df, t) == RowsInSizeRange(df, WebPeopleCount(t))

RowsInBudget(df, budget) ==
    IF budget = <<>> THEN <<>> ELSE SelectSeq(df, LAMBDA r : InWebBudget(r, budget[1]))

WebBudgetMatches(df, t) == RowsInBudget(df, WebBudget(t))

\* The rows extended for the location keywords from the k-th on.
RECURSIVE WebLocationMatches(_, _, _)
WebLocationMatches(df, t, k) ==
    IF k > Len(WebLocationKeywords) THEN <<>>
    ELSE (IF InText(t, WebLocationKeywords[k].keyword)
          THEN SelectSeq(df, LAMBDA r : AddressContains(r.address, WebLocationKeywords[k].location))
          ELSE <<>>)
         \o WebLocationMatches(df, t, k + 1)

\* The list `matches` before duplicates are removed.
WebAllMatches(df, t) ==
    WebSizeMatches(df, t) \o WebBudgetMatches(df, t) \o WebLocationMatches(df, t, 1)

\* The list `matches` as it is, duplicates kept.
KeepAll(ms, i, seen) == SubSeq(ms, i, Len(ms))

\* unique_matches: a row is kept at its first occurrence.
RECURSIVE UniqueById(_, _, _)
UniqueById(ms, i, seen) ==
    IF i > Len(ms) THEN <<>>
    ELSE IF ms[i].unique_id \in seen THEN UniqueById(ms, i + 1, seen)
    ELSE <<ms[i]>> \o UniqueById(ms, i + 1, seen \cup {ms[i].unique_id})

WebTopMatches(df, matches) ==
    IF Len(matches) > 0
    THEN HeadN(UniqueById(matches, 1, {}), TopN)
    ELSE HeadN(df, TopN)

WebFindMatchingProperties(df, message) ==
    WebTopMatches(df, WebAllMatches(df, LowerText(message)))

----------------------------------------------------------------------------
(* Requirement records handed to the matcher *)

SizeBounds == {0, Fx(2000), Fx(2500), Fx(3000)}

RentBounds == {0, Fx(26), Fx(30)}

LocationLists == {<<"downtown">>, <<"uptown", "center">>, <<"district">>}

CultureLists == {<<"modern">>, <<"tech">>, <<"creative", "tech">>}

RequirementRecords ==
    {[EmptyRequirements EXCEPT !.min_size = a, !.max_size = b, !.max_rent_per_sf = c,
                               !.preferred_locations = l, !.culture_keywords = k] :
        a \in SizeBounds \cup {None}, b \in SizeBounds \cup {None},
        c \in RentBounds \cup {None}, l \in LocationLists \cup {<<>>},
        k \in CultureLists \cup {<<>>}}

----------------------------------------------------------------------------
(* The matcher called on a requirements record *)

NoStartup == [app |-> "none", csv |-> "none"]

NoUpload == [content_type |-> "none", size |-> 0, position |-> 0]

NoResponse == [endpoint |-> "none"]

\* A request of the core looked at on its own: no startup, log, upload or
\* endpoint response is involved.
NoSession ==
    /\ startup = NoStartup
    /\ calls = <<>>
    /\ upload = NoUpload
    /\ response = NoResponse
    /\ pending = {}

InitMatch ==
    /\ properties_df \in Catalogs
    /\ requirements \in RequirementRecords
    /\ text = <<>>
    /\ matching_properties = <<>>
    /\ web_matches = <<>>
    /\ base = <<>>
    /\ pc = "ready"
    /\ web_pc = "start"
    /\ emotion_data = <<>>
    /\ emotion_source = "none"
    /\ NoSession

FindMatching ==
    /\ pc = "ready"
    /\ matching_properties' \in FindMatchingProperties(properties_df, requirements)
    /\ pc' = "matched"
    /\ UNCHANGED <<properties_df, text, requirements, web_matches, base, web_pc, emotion_data,
                 emotion_source>>
    /\ UNCHANGED session

\* A second request whose requirements equal the first one's except that one
\* absent bound is now set.
Narrowings(req) ==
    {[req EXCEPT !.min_size = v] : v \in {w \in SizeBounds : req.min_size = None}}
    \cup {[req EXCEPT !.max_size = v] : v \in {w \in SizeBounds : req.max_size = None}}
    \cup {[req EXCEPT !.max_rent_per_sf = v] : v \in {w \in RentBounds : req.max_rent_per_sf = None}}
    \cup {[req EXCEPT !.preferred_locations = v] :
             v \in {w \in LocationLists : req.preferred_locations = <<>>}}

NarrowRequirements ==
    /\ pc = "matched"
    /\ base = <<>>
    /\ requirements' \in Narrowings(requirements)
    /\ base' = <<[requirements |-> requirements,
                  survivors |-> FilteredDf(properties_df, requirements),
                  result |-> matching_properties]>>
    /\ pc' = "ready"
    /\ UNCHANGED <<properties_df, text, matching_properties, web_matches, web_pc, emotion_data,
                 emotion_source>>
    /\ UNCHANGED session

NextMatch == FindMatching \/ NarrowRequirements

SpecMatch == InitMatch /\ [][NextMatch]_vars

----------------------------------------------------------------------------
(* A request: a text handled by PropertyMatchingService and by final_web_app *)

MaxPhrases == 2

SizePhrases ==
    {<<"5", "0", "0", "sf">>,
     <<"2", "0", "0", "0", "sf">>,
     <<"3", ",", "0", "0", "0", " ", "square feet">>}

HeadcountPhrases ==
    {<<"0", " ", "people">>,
     <<"2", "5", " ", "people">>,
     <<"team", " ", "of", " ", "2", "0">>,
     <<"team", " ", "of", " ", "2", "0", " ", "people">>,
     <<"2", "5", " ", "employees">>,
     <<"2", "0", " ", "person", " ", "team">>}

BudgetPhrases ==
    {<<"$", "0", " ", "per", " ", "square foot">>,
     <<"$", "3", "0", " ", "per", " ", "square foot">>,
     <<"$", "3", "0", " ", "sf">>,
     <<"$", "5", "0", "0", "0", " ", "per", " ", "month">>,
     <<"$", "5", ",", "0", "0", "0", " ", "per", " ", "month">>,
     <<"budget", " ", "$", "3", "0">>,
     <<"budget", " ", "$", "5", "0", "0", "0">>,
     <<"under", "$", "3", "0">>}

WordPhrases ==
    {<<"Downtown">>, <<"uptown">>, <<"district">>, <<"tech">>, <<"creative">>}

Phrases == SizePhrases \cup HeadcountPhrases \cup BudgetPhrases \cup WordPhrases

\* ' '.join(...) of the phrases
RECURSIVE JoinPhrases(_, _)
JoinPhrases(ps, i) ==
    IF i > Len(ps) THEN <<>>
    ELSE IF i = Len(ps) THEN ps[i]
    ELSE ps[i] \o <<" ">> \o JoinPhrases(ps, i + 1)

Texts == {JoinPhrases(ps, 1) : ps \in UNION {[1..n -> Phrases] : n \in 0..MaxPhrases}}

\* A whole chat message carrying a headcount, a location, a budget and two
\* culture keywords.
ChatScenarioText ==
    <<"I", " ", "need", " ", "office", " ", "space", " ", "for", " ", "2", "0", " ",
      "employees", " ", "downtown", ",", " ", "budget", " ", "$", "3", "0", " ", "per", " ",
      "square foot", ",", " ", "modern", " ", "and", " ", "collaborative">>

ScenarioTexts == {ChatScenarioText}

RequestCatalogs == {SampleData, WebSampleData}

Init ==
    /\ properties_df \in RequestCatalogs
    /\ text \in Texts \cup ScenarioTexts
    /\ requirements = EmptyRequirements
    /\ matching_properties = <<>>
    /\ web_matches = <<>>
    /\ base = <<>>
    /\ pc = "start"
    /\ web_pc = "start"
    /\ emotion_data = <<>>
    /\ emotion_source = "none"
    /\ NoSession

\* get_property_recommendations, first step
Extract ==
    /\ pc = "start"
    /\ requirements' = ExtractRequirements(text)
    /\ pc' = IF ProfileTruthy(emotion_data) THEN "extracted" ELSE "ready"
    /\ UNCHANGED <<properties_df, text, matching_properties, web_matches, base, web_pc, emotion_data,
                 emotion_source>>
    /\ UNCHANGED session

\* chat_with_llm of final_web_app: properties = find_matching_properties(message)
WebFindMatching ==
    /\ web_pc = "start"
    /\ web_matches' = WebFindMatchingProperties(properties_df, text)
    /\ web_pc' = "done"
    /\ UNCHANGED <<properties_df, text, requirements, matching_properties, base, pc, emotion_data,
                 emotion_source>>
    /\ UNCHANGED session

Next == Extract \/ FindMatching \/ WebFindMatching

Spec == Init /\ [][Next]_vars

----------------------------------------------------------------------------
(* final_web_app.find_matching_properties on the catalogs load_properties can give *)

WebCatalogs == RequestCatalogs \cup {DuplicateIdData}

InitWeb ==
    /\ properties_df \in WebCatalogs
    /\ text \in Texts \cup ScenarioTexts
    /\ requirements = EmptyRequirements
    /\ matching_properties = <<>>
    /\ web_matches = <<>>
    /\ base = <<>>
    /\ pc = "start"
    /\ web_pc = "start"
    /\ emotion_data = <<>>
    /\ emotion_source = "none"
    /\ NoSession

NextWeb == WebFindMatching

SpecWeb == InitWeb /\ [][NextWeb]_vars

----------------------------------------------------------------------------
(* get_property_recommendations called with an emotion profile *)

\* An emotion profile as the caller of the chat endpoint sends it: any of its
\* keys may be absent.
RequestProfiles ==
    {[emotion_score |-> None, enthusiasm_level |-> e,
      tone_analysis |-> [professional |-> p, excited |-> x,
                         confident |-> None, uncertain |-> None]] :
        e \in {None, Pct(70), Pct(71)}, x \in {None, Pct(60), Pct(61)},
        p \in {None, Pct(70), Pct(80)}}

ProfiledPhrases ==
    {<<"5", "0", "0", "sf">>,
     <<"0", " ", "people">>,
     <<"2", "5", " ", "people">>,
     <<"team", " ", "of", " ", "2", "0", " ", "people">>,
     <<"$", "0", " ", "per", " ", "square foot">>,
     <<"$", "3", "0", " ", "per", " ", "square foot">>,
     <<"$", "5", ",", "0", "0", "0", " ", "per", " ", "month">>,
     <<"Downtown">>,
     <<"tech">>}

ProfiledTexts ==
    {JoinPhrases(ps, 1) : ps \in UNION {[1..n -> ProfiledPhrases] : n \in 0..MaxPhrases}}

InitEmotion ==
    /\ properties_df = SampleData
    /\ text \in ProfiledTexts
    /\ emotion_data \in {<<>>} \cup {<<p>> : p \in RequestProfiles}
    /\ emotion_source = "request"
    /\ requirements = EmptyRequirements
    /\ matching_properties = <<>>
    /\ web_matches = <<>>
    /\ base = <<>>
    /\ pc = "start"
    /\ web_pc = "start"
    /\ NoSession

\* get_property_recommendations: if emotion_data: requirements = _apply_emotion_filters(...)
ApplyFilters ==
    /\ pc = "extracted"
    /\ requirements' = ApplyEmotionFilters(requirements, emotion_data[1])
    /\ pc' = "ready"
    /\ UNCHANGED <<properties_df, text, matching_properties, web_matches, base, web_pc,
                   emotion_data, emotion_source>>
    /\ UNCHANGED session

NextEmotion == Extract \/ ApplyFilters \/ FindMatching

SpecEmotion == InitEmotion /\ [][NextEmotion]_vars

----------------------------------------------------------------------------
(* The emotion profile of a transcript or chat message *)

EmotionPhrases ==
    {<<" ">>,
     <<"love">>,
     <<"wow">>,
     <<"need">>,
     <<"maybe">>,
     <<"hmm">>,
     <<"not", " ", "sure">>,
     <<"definitely">>,
     <<"we", " ", "are", " ", "Looking", " ", "for", " ", "a", " ", "new", " ", "place", " ",
       "to", " ", "work", " ", "in">>}

AnalysisTexts ==
    {JoinPhrases(ps, 1) : ps \in UNION {[1..n -> EmotionPhrases] : n \in 0..MaxPhrases}}
    \cup {MockTranscripts[k] : k \in 1..Len(MockTranscripts)}
    \cup {MockTranscript}

InitAnalysis ==
    /\ properties_df = WebSampleData
    /\ text \in AnalysisTexts
    /\ emotion_data = <<>>
    /\ emotion_source = "none"
    /\ requirements = EmptyRequirements
    /\ matching_properties = <<>>
    /\ web_matches = <<>>
    /\ base = <<>>
    /\ pc = "start"
    /\ web_pc = "start"
    /\ NoSession

\* final_web_app: emotion_data = analyze_emotion_from_text(...)
AnalyzeEmotion ==
    /\ emotion_source = "none"
    /\ emotion_data' = <<AnalyzeEmotionFromText(text)>>
    /\ emotion_source' = "analyze_emotion_from_text"
    /\ UNCHANGED <<properties_df, text, requirements, matching_properties, web_matches, base,
                   pc, web_pc>>
    /\ UNCHANGED session

\* TranscriptionService.transcribe_audio: result.update(_basic_emotion_analysis(transcript))
BasicAnalysis ==
    /\ emotion_source = "none"
    /\ emotion_data' = <<BasicEmotionAnalysis(text)>>
    /\ emotion_source' = "_basic_emotion_analysis"
    /\ UNCHANGED <<properties_df, text, requirements, matching_properties, web_matches, base,
                   pc, web_pc>>
    /\ UNCHANGED session

\* TranscriptionService.transcribe_audio without a client, or on an error
MockTranscription ==
    /\ emotion_source = "none"
    /\ text' = MockTranscript
    /\ emotion_data' = <<MockProfile>>
    /\ emotion_source' = "_get_mock_transcription"
    /\ UNCHANGED <<properties_df, requirements, matching_properties, web_matches, base,
                   pc, web_pc>>
    /\ UNCHANGED session

NextAnalysis == AnalyzeEmotion \/ BasicAnalysis \/ MockTranscription

SpecAnalysis == InitAnalysis /\ [][NextAnalysis]_vars

----------------------------------------------------------------------------
(* Startup: the catalog loaders *)

\* The state of data/properties.csv when the program starts.
CsvStates == {"missing", "unreadable", "unparseable", "loaded"}

\* The rows of a data/properties.csv that can be read.
CsvFile == <<PROP005, PROP002>>

\* pd.read_csv('data/properties.csv'): the frame, or an exception for a file
\* that is missing, cannot be read or cannot be parsed.
ReadCsv(csv) ==
    IF csv = "loaded" THEN [raised |-> FALSE, df |-> CsvFile]
    ELSE [raised |-> TRUE, df |-> EmptyData]

\* _load_properties with the exception of read_csv left to escape: the
\* catalog stays the None of __init__.
LoadPropertiesNoFallback(app, csv) ==
    IF app = "app" /\ csv = "missing" THEN SampleData ELSE ReadCsv(csv).df

\* PropertyMatchingService._load_properties (app) and load_properties
\* (final_web_app): the catalog after startup.
LoadPropertiesOf(app, csv) ==
    IF app = "app"
    THEN IF csv = "missing"
         THEN SampleData
         ELSE IF ReadCsv(csv).raised THEN SampleData ELSE ReadCsv(csv).df
    ELSE IF ReadCsv(csv).raised THEN WebSampleData ELSE ReadCsv(csv).df

----------------------------------------------------------------------------
(* The catalog object across a call of _find_matching_properties *)

\* A DataFrame object: its rows, and whether it is the catalog object itself.
CatalogFrame(df) == [rows |-> df, shared |-> TRUE]

\* Without .copy(): the same object under another name.
SameFrame(f) == f

\* DataFrame.copy(): a new object with the same rows.
CopyFrame(f) == [rows |-> f.rows, shared |-> FALSE]

\* Boolean indexing (filtered_df[mask]) returns a new object; a filter whose
\* `if` is not taken leaves filtered_df the object it was.
AnyFilterApplied(req) ==
    \/ Truthy(req.min_size)
    \/ Truthy(req.max_size)
    \/ Truthy(req.max_rent_per_sf)
    \/ Len(req.preferred_locations) > 0

FilteredFrame(f, req) ==
    [rows |-> FilteredDf(f.rows, req), shared |-> f.shared /\ ~AnyFilterApplied(req)]

\* filtered_df = filtered_df.copy() in front of the column assignment
ScoredFrame(f, req) == IF Len(req.culture_keywords) > 0 THEN CopyFrame(f) ELSE f

\* self.properties_df after _find_matching_properties(req): the assignment
\* filtered_df['culture_score'] = ... writes into the object filtered_df names.
CatalogAfterFindMatching(df, req) ==
    IF Len(df) = 0 THEN df
    ELSE IF /\ Len(req.culture_keywords) > 0
            /\ ScoredFrame(FilteredFrame(CopyFrame(CatalogFrame(df)), req), req).shared
         THEN WithCultureScore(df, req)
         ELSE df

----------------------------------------------------------------------------
(* PropertyMatchingService._format_property_recommendations *)

\* One formatted recommendation: the fields of the row it prints, and the
\* "Culture Match: High" line.
FormatRecommendation(prop) ==
    [address |-> prop.address, size |-> prop.size, rent |-> prop.rent,
     culture_match |-> IF "culture_score" \in DOMAIN prop THEN prop.culture_score > 0
                       ELSE FALSE]

\* The text returned: the apology for no properties, or the recommendations
\* followed by the requirements detected.
FormatPropertyRecommendations(properties, req) ==
    IF Len(properties) = 0
    THEN [apology |-> TRUE, recommendations |-> <<>>, detected |-> <<>>]
    ELSE [apology |-> FALSE,
          recommendations |-> [i \in 1..Len(properties) |-> FormatRecommendation(properties[i])],
          detected |-> <<req.min_size, req.max_size, req.max_rent_per_sf,
                         req.culture_keywords, req.preferred_locations>>]

----------------------------------------------------------------------------
(* final_web_app: generate_response_with_properties and the upload *)

\* emotion_data.get('enthusiasm_level', 0) and
\* emotion_data.get('tone_analysis', {}).get('professional', 0) of an optional
\* profile; `emotion_data and ...` is false for None and for {}.
ResponseOpening(emotion) ==
    IF ProfileTruthy(emotion) /\ Get(emotion[1].enthusiasm_level, 0) > Pct(60)
    THEN "excited"
    ELSE IF ProfileTruthy(emotion) /\ Get(emotion[1].tone_analysis.professional, 0) > Pct(70)
         THEN "professional"
         ELSE "plain"

ResponseFollowUp(emotion) ==
    IF ProfileTruthy(emotion) /\ Get(emotion[1].enthusiasm_level, 0) > Pct(70)
    THEN "tours"
    ELSE "details"

\* The reply text: the questions asked when there is no property, or the
\* opening, the properties listed and the follow-up.
GenerateResponseWithProperties(properties, emotion) ==
    IF Len(properties) = 0
    THEN [opening |-> "questions", listed |-> <<>>, follow_up |-> "none"]
    ELSE [opening |-> ResponseOpening(emotion),
          listed |-> [i \in 1..Len(properties) |-> properties[i].unique_id],
          follow_up |-> ResponseFollowUp(emotion)]

\* request.emotion_data or analyze_emotion_from_text(request.message)
ChatEmotion(message, emotion) ==
    IF ProfileTruthy(emotion) THEN emotion ELSE <<AnalyzeEmotionFromText(message)>>

\* await audio_file.read(): the bytes from the file position to the end, and
\* the position left at the end.
ReadLen(up) == up.size - up.position

AfterRead(up) == [up EXCEPT !.position = up.size]

\* mock_transcripts[len(audio_data) % len(mock_transcripts)]
TranscriptOfLen(n) == MockTranscripts[(n % Len(MockTranscripts)) + 1]

----------------------------------------------------------------------------
(* A session: startup, then requests; an upload handler gives way to others at its awaits *)

MaxCalls == 3

\* A profile over both thresholds of _apply_emotion_filters.
ExcitedProfile ==
    [emotion_score |-> None, enthusiasm_level |-> Pct(71),
     tone_analysis |-> [professional |-> None, excited |-> Pct(61),
                        confident |-> None, uncertain |-> None]]

\* One message of a conversation_history.
UserMessage(content) == [role |-> "user", content |-> content]

\* The calls of get_property_recommendations a session makes: a culture
\* keyword without a profile, a profile over both thresholds, the empty
\* profile with a headcount, and two messages with a profile.
ServiceRequests ==
    {[conversation_history |-> <<UserMessage(<<"tech">>)>>, emotion_data |-> <<>>],
     [conversation_history |-> <<UserMessage(<<"perfect">>)>>,
      emotion_data |-> <<ExcitedProfile>>],
     [conversation_history |-> <<UserMessage(<<"2", "5", " ", "people">>)>>,
      emotion_data |-> <<EmptyProfile>>],
     [conversation_history |-> <<UserMessage(<<"2", "5", " ", "people">>),
                                 UserMessage(<<"tech">>)>>,
      emotion_data |-> <<ExcitedProfile>>]}

\* ' '.join([msg['content'] for msg in conversation_history])
RECURSIVE JoinContents(_, _)
JoinContents(conversation_history, i) ==
    IF i > Len(conversation_history) THEN <<>>
    ELSE IF i = Len(conversation_history) THEN conversation_history[i].content
    ELSE conversation_history[i].content \o <<" ">> \o JoinContents(conversation_history, i + 1)

FullConversation(conversation_history) == JoinContents(conversation_history, 1)

UploadSizes == {0, 2, 5}

NewUpload(n) == [content_type |-> "audio/wav", size |-> n, position |-> 0]

InitSession ==
    /\ startup \in {s \in [app : {"app", "final_web_app"}, csv : CsvStates,
                            argsort : SortKernels] :
                       s.app = "final_web_app" => s.argsort = StableArgsort}
    /\ properties_df = EmptyData
    /\ pc = "startup"
    /\ calls = <<>>
    /\ upload = NoUpload
    /\ response = NoResponse
    /\ pending = {}
    /\ text = <<>>
    /\ requirements = EmptyRequirements
    /\ matching_properties = <<>>
    /\ web_matches = <<>>
    /\ base = <<>>
    /\ web_pc = "start"
    /\ emotion_data = <<>>
    /\ emotion_source = "none"

request_vars ==
    <<text, requirements, matching_properties, web_matches, base, web_pc, emotion_data,
      emotion_source>>

\* PropertyMatchingService.__init__ / the module-level load of final_web_app
LoadProperties ==
    /\ pc = "startup"
    /\ properties_df' = LoadPropertiesOf(startup.app, startup.csv)
    /\ pc' = "serving"
    /\ UNCHANGED <<startup, calls, upload, response, pending>>
    /\ UNCHANGED request_vars

\* The objects one call of get_property_recommendations works on: the list and
\* the dict its caller supplied, and the requirements dict of the call. Each
\* step below gives the objects as the step leaves them.
CallObjects(conversation_history, emotion) ==
    [conversation_history |-> conversation_history, emotion_data |-> emotion,
     requirements |-> EmptyRequirements]

\* requirements = self._extract_requirements(conversation_history): the
\* messages are read into a new list and joined; the dict returned is new.
ExtractRequirementsStep(o) ==
    [o EXCEPT !.requirements = ExtractRequirements(FullConversation(o.conversation_history))]

\* if emotion_data: requirements = self._apply_emotion_filters(requirements,
\* emotion_data): emotion_data is read with .get; *= and extend write the
\* requirements dict and the culture_keywords list of that dict.
ApplyEmotionFiltersStep(o) ==
    IF ProfileTruthy(o.emotion_data)
    THEN [o EXCEPT !.requirements = ApplyEmotionFilters(@, o.emotion_data[1])]
    ELSE o

\* The objects after both steps; _find_matching_properties and
\* _format_property_recommendations take the requirements dict and read it.
ObjectsAfterCall(conversation_history, emotion) ==
    ApplyEmotionFiltersStep(ExtractRequirementsStep(CallObjects(conversation_history, emotion)))

\* With the culture keywords of the previous call kept in the requirements
\* record, as if the record outlived the call.
RecommendationRequirementsKept(conversation_history, emotion) ==
    [ObjectsAfterCall(conversation_history, emotion).requirements
     EXCEPT !.culture_keywords =
         (IF Len(calls) > 0 THEN calls[Len(calls)].matcher.requirements.culture_keywords
          ELSE <<>>) \o @]

\* The requirements get_property_recommendations hands to the matcher.
RecommendationRequirements(conversation_history, emotion) ==
    ObjectsAfterCall(conversation_history, emotion).requirements

\* One call of PropertyMatchingService.get_property_recommendations, whole.
Recommend(conversation_history, emotion, req) ==
    LET rows == FindMatchingPropertiesBy(startup.argsort, properties_df, req)
        after == ObjectsAfterCall(conversation_history, emotion)
    IN  /\ calls' = Append(calls,
               [fn |-> "get_property_recommendations",
                args |-> <<conversation_history, emotion>>,
                args_after |-> <<after.conversation_history, after.emotion_data>>,
                matcher |-> [catalog |-> properties_df, requirements |-> req, rows |-> rows],
                result |-> FormatPropertyRecommendations(rows, req)])
        /\ response' = [endpoint |-> "get_property_recommendations",
                        context |-> FormatPropertyRecommendations(rows, req)]
        /\ properties_df' = CatalogAfterFindMatching(properties_df, req)

ServiceRecommend ==
    /\ pc = "serving"
    /\ startup.app = "app"
    /\ Len(calls) < MaxCalls
    /\ \E r \in ServiceRequests :
           Recommend(r.conversation_history, r.emotion_data,
                     RecommendationRequirements(r.conversation_history, r.emotion_data))
    /\ UNCHANGED <<startup, upload, pc, pending>>
    /\ UNCHANGED request_vars

\* The log entry of a function of final_web_app called with one argument, a
\* str: a value that nothing can write.
CallOf(fn, arg, result) ==
    [fn |-> fn, args |-> <<arg>>, matcher |-> <<>>, result |-> result]

\* The /api/v1/chat answer for a message and the profile sent with it
\* (`supplied`), given the properties find_matching_properties returned: with
\* the profile the reply was written for and where that profile came from.
ChatBody(message, emotion, properties) ==
    [endpoint |-> "/api/v1/chat", status |-> 200,
     supplied |-> emotion,
     emotion_source |-> IF ProfileTruthy(emotion) THEN "request"
                        ELSE "analyze_emotion_from_text",
     response |-> GenerateResponseWithProperties(properties, ChatEmotion(message, emotion)),
     emotion_used |-> ChatEmotion(message, emotion),
     tokens_used |-> 150, model |-> "smart-property-matcher"]

\* The calls chat_with_llm makes: find_matching_properties, and
\* analyze_emotion_from_text unless a profile was sent.
ChatCalls(message, emotion, properties) ==
    <<CallOf("find_matching_properties", message, properties)>>
    \o (IF ProfileTruthy(emotion) THEN <<>>
        ELSE <<CallOf("analyze_emotion_from_text", message,
                      AnalyzeEmotionFromText(message))>>)

\* The calls the suspended requests will log when they resume: one for a
\* transcription, two for a conversation.
PendingCalls ==
    Cardinality(pending) + Cardinality({r \in pending : r.endpoint = "/api/v1/converse"})

\* The ChatRequest bodies posted to /api/v1/chat: without a profile, with the
\* empty profile and with a profile.
ChatRequests ==
    {[message |-> <<"tech">>, emotion_data |-> <<>>],
     [message |-> <<"perfect">>, emotion_data |-> <<EmptyProfile>>],
     [message |-> <<"2", "5", " ", "people">>, emotion_data |-> <<ExcitedProfile>>]}

\* POST /api/v1/chat of final_web_app, whole.
WebChat ==
    /\ pc = "serving"
    /\ startup.app = "final_web_app"
    /\ Len(calls) + PendingCalls < MaxCalls
    /\ \E request \in ChatRequests :
           LET properties == WebFindMatchingProperties(properties_df, request.message)
           IN  /\ calls' = calls
                      \o ChatCalls(request.message, request.emotion_data, properties)
               /\ response' = ChatBody(request.message, request.emotion_data, properties)
    /\ UNCHANGED <<properties_df, startup, upload, pc, pending>>
    /\ UNCHANGED request_vars

\* The body of the /api/v1/transcribe answer for the upload as it is handed in.
TranscribeBody(up) ==
    LET transcript == TranscriptOfLen(ReadLen(up))
    IN  [endpoint |-> "/api/v1/transcribe", status |-> 200,
         transcript |-> transcript,
         emotion_analysis |-> AnalyzeEmotionFromText(transcript),
         provider |-> "smart_mock"]

\* A handler suspended at `await audio_file.read()`: its endpoint, its upload
\* and the length of the bytes it has read itself (None before its first
\* read).
Suspended(endpoint, up) == [endpoint |-> endpoint, upload |-> up, audio_len |-> None]

\* POST /api/v1/transcribe of final_web_app up to `await audio_file.read()`.
WebTranscribeStart ==
    /\ pc = "serving"
    /\ startup.app = "final_web_app"
    /\ Len(calls) + PendingCalls < MaxCalls
    /\ \E n \in UploadSizes :
           /\ Suspended("/api/v1/transcribe", NewUpload(n)) \notin pending
           /\ pending' = pending \cup {Suspended("/api/v1/transcribe", NewUpload(n))}
    /\ UNCHANGED <<properties_df, startup, pc, calls, upload, response>>
    /\ UNCHANGED request_vars

\* POST /api/v1/transcribe of final_web_app from the read to the answer.
WebTranscribe ==
    /\ \E r \in pending :
           /\ r.endpoint = "/api/v1/transcribe"
           /\ LET body == TranscribeBody(r.upload)
              IN  /\ response' = body
                  /\ calls' = Append(calls,
                         CallOf("analyze_emotion_from_text", body.transcript,
                                body.emotion_analysis))
           /\ upload' = AfterRead(r.upload)
           /\ pending' = pending \ {r}
    /\ UNCHANGED <<properties_df, startup, pc>>
    /\ UNCHANGED request_vars

\* The body of the /api/v1/converse answer: audio_len bytes were read by the
\* handler itself, transcription_result is what transcribe_audio returned and
\* chat_result what chat_with_llm returned.
ConverseBody(audio_len, transcription_result, chat_result) ==
    [endpoint |-> "/api/v1/converse", status |-> 200,
     audio_len |-> audio_len,
     transcript |-> transcription_result.transcript,
     emotion_analysis |-> transcription_result.emotion_analysis,
     response |-> chat_result.response]

\* POST /api/v1/converse of final_web_app up to its `await audio_file.read()`.
WebConverseStart ==
    /\ pc = "serving"
    /\ startup.app = "final_web_app"
    /\ Len(calls) + PendingCalls < MaxCalls
    /\ \E n \in UploadSizes :
           /\ Suspended("/api/v1/converse", NewUpload(n)) \notin pending
           /\ pending' = pending \cup {Suspended("/api/v1/converse", NewUpload(n))}
    /\ UNCHANGED <<properties_df, startup, pc, calls, upload, response>>
    /\ UNCHANGED request_vars

\* POST /api/v1/converse from its own read to the `await audio_file.read()`
\* of the transcribe_audio it calls.
WebConverseRead ==
    /\ \E r \in pending :
           /\ r.endpoint = "/api/v1/converse"
           /\ r.audio_len = None
           /\ upload' = AfterRead(r.upload)
           /\ pending' = (pending \ {r})
                  \cup {[r EXCEPT !.audio_len = ReadLen(r.upload),
                                  !.upload = AfterRead(r.upload)]}
    /\ UNCHANGED <<properties_df, startup, pc, calls, response>>
    /\ UNCHANGED request_vars

\* POST /api/v1/converse from the read of transcribe_audio, which gets the
\* upload as the handler's own read left it, to the answer.
WebConverse ==
    /\ \E r \in pending :
           /\ r.endpoint = "/api/v1/converse"
           /\ r.audio_len # None
           /\ LET transcription_result == TranscribeBody(r.upload)
                  transcript == transcription_result.transcript
                  emotion_analysis == transcription_result.emotion_analysis
                  properties == WebFindMatchingProperties(properties_df, transcript)
              IN  /\ response' = ConverseBody(r.audio_len, transcription_result,
                                     ChatBody(transcript, <<emotion_analysis>>, properties))
                  /\ calls' = calls
                         \o <<CallOf("analyze_emotion_from_text", transcript,
                                     emotion_analysis)>>
                         \o ChatCalls(transcript, <<emotion_analysis>>, properties)
           /\ upload' = AfterRead(r.upload)
           /\ pending' = pending \ {r}
    /\ UNCHANGED <<properties_df, startup, pc>>
    /\ UNCHANGED request_vars

NextSession ==
    \/ LoadProperties
    \/ ServiceRecommend
    \/ WebChat
    \/ WebTranscribeStart
    \/ WebTranscribe
    \/ WebConverseStart
    \/ WebConverseRead
    \/ WebConverse

SpecSession == InitSession /\ [][NextSession]_vars

----------------------------------------------------------------------------
(* app: LLMService.generate_response and POST /chat *)

\* A value of a profile key that is no number, such as a JSON string or null
\* (ChatRequest.emotion_data is a Dict[str, Any]).
NonNumber == -2

NonNumericProfile == [EmptyProfile EXCEPT !.enthusiasm_level = NonNumber]

AppProfiles == {<<>>, <<EmptyProfile>>, <<ExcitedProfile>>, <<NonNumericProfile>>}

AppMessages ==
    {<<"Hello">>, <<"office", " ", "space">>, <<"2", "5", " ", "people">>, <<"tech">>}

\* The collaborator that fails while a request is served.
Faults == {"none", "property_matching", "prompt", "llm"}

\* `if emotion_data: enthusiasm = emotion_data.get('enthusiasm_level', 0.5);
\* if enthusiasm > 0.7`: the comparison of a non-number with a float raises
\* TypeError.
EnthusiasmRaises(emotion) ==
    ProfileTruthy(emotion) /\ emotion[1].enthusiasm_level = NonNumber

Raised(e) == [raised |-> TRUE, exception |-> e, value |-> <<>>]

Returned(v) == [raised |-> FALSE, exception |-> "none", value |-> v]

\* any(word in message_lower for word in [...]), first branch that applies
MockTemplate(message_lower) ==
    IF \E w \in {"hello", "hi", "hey"} : KeywordInText(message_lower, w) THEN "hello"
    ELSE IF \E w \in {"office", "space", "looking"} : KeywordInText(message_lower, w)
         THEN "office"
    ELSE IF \E w \in {"people", "employees", "team"} : KeywordInText(message_lower, w)
         THEN "team"
    ELSE IF \E w \in {"budget", "cost", "price", "$"} : KeywordInText(message_lower, w)
         THEN "budget"
    ELSE IF \E w \in {"virtual", "tour", "see", "show"} : KeywordInText(message_lower, w)
         THEN "tour"
    ELSE "other"

\* The templates whose text holds "Great!" or "Perfect!".
ReplaceableTemplates == {"office", "team"}

\* LLMService._get_mock_response: the templated reply, with its "Great!" /
\* "Perfect!" replaced for an enthusiasm over 0.7.
GetMockResponse(message, emotion) ==
    IF EnthusiasmRaises(emotion) THEN Raised("TypeError")
    ELSE Returned([response |->
                       [template |-> MockTemplate(LowerText(message)),
                        replaced |-> /\ ProfileTruthy(emotion)
                                     /\ IsHighEnthusiasm(emotion[1])
                                     /\ MockTemplate(LowerText(message))
                                            \in ReplaceableTemplates],
                   processing_time |-> "elapsed",
                   tokens_used |-> 100,
                   model |-> "mock-model"])

\* The try block of generate_response: the mock response without a client;
\* else property recommendations, system prompt and the completion, each of
\* which may raise (get_property_recommendations and _build_system_prompt
\* compare enthusiasm_level with 0.7 as well).
GenerateResponseTry(client, fault, message, emotion) ==
    IF ~client THEN GetMockResponse(message, emotion)
    ELSE IF EnthusiasmRaises(emotion) THEN Raised("TypeError")
    ELSE IF fault # "none" THEN Raised(fault)
    ELSE Returned([response |-> [template |-> "completion", replaced |-> FALSE],
                   processing_time |-> "elapsed",
                   tokens_used |-> "usage.total_tokens",
                   model |-> "DEFAULT_MODEL"])

\* LLMService.generate_response: `except Exception` returns
\* self._get_mock_response(...), called outside any try.
GenerateResponse(client, fault, message, emotion) ==
    IF GenerateResponseTry(client, fault, message, emotion).raised
    THEN GetMockResponse(message, emotion)
    ELSE GenerateResponseTry(client, fault, message, emotion)

\* POST /chat: ChatResponse built from the result, or HTTPException(500).
ChatEndpoint(result, rag) ==
    IF result.raised
    THEN [status |-> 500, body |-> <<>>]
    ELSE [status |-> 200,
          body |-> <<[response |-> result.value.response,
                      processing_time |-> result.value.processing_time,
                      tokens_used |-> result.value.tokens_used,
                      model |-> result.value.model,
                      rag_sources_used |-> rag]>>]

----------------------------------------------------------------------------
(* app: TranscriptionService.transcribe_audio and POST /transcribe *)

\* What Whisper returns for the audio: some text, possibly none.
HeardTexts == {<<>>, <<"perfect">>}

TranscriptionFaults == {"none", "whisper", "emotion_analysis"}

\* result.update(...) left out.
KeepDict(a, b) == a

\* dict.update: the keys of b are added to a or overwrite a's.
UpdateDict(a, b) ==
    [k \in DOMAIN a \cup DOMAIN b |-> IF k \in DOMAIN b THEN b[k] ELSE a[k]]

\* _transcribe_openai
TranscribeOpenai(heard) ==
    [transcript |-> heard, confidence |-> None, provider |-> "openai"]

\* _get_mock_transcription
GetMockTranscription ==
    [transcript |-> MockTranscript, confidence |-> Pct(95),
     transcription_time |-> "elapsed", provider |-> "mock",
     emotion_score |-> MockProfile.emotion_score,
     enthusiasm_level |-> MockProfile.enthusiasm_level,
     voice_pace |-> MockProfile.voice_pace,
     tone_analysis |-> MockProfile.tone_analysis]

\* The try block of transcribe_audio.
TranscribeAudioTry(client, fault, heard) ==
    IF ~client THEN Returned(GetMockTranscription)
    ELSE IF fault # "none" THEN Raised(fault)
    ELSE Returned(UpdateDict(UpdateDict(TranscribeOpenai(heard), BasicEmotionAnalysis(heard)),
                             [transcription_time |-> "elapsed"]))

\* TranscriptionService.transcribe_audio: `except Exception` returns the mock.
TranscribeAudio(client, fault, heard) ==
    IF TranscribeAudioTry(client, fault, heard).raised
    THEN Returned(GetMockTranscription)
    ELSE TranscribeAudioTry(client, fault, heard)

ContentTypes == {"none", "audio/wav", "text/plain"}

\* audio_file.content_type.startswith('audio/'), for the types above
StartsWithAudio(content_type) == content_type = "audio/wav"

HttpException(status, detail) ==
    [raised |-> TRUE, exception |-> "HTTPException", status |-> status, detail |-> detail,
     value |-> <<>>]

\* The dict the endpoint returns for the service's result.
TranscribeResponse(result) ==
    [transcript |-> result.transcript,
     confidence |-> IF "confidence" \in DOMAIN result THEN result.confidence ELSE None,
     transcription_time |-> result.transcription_time,
     provider |-> result.provider,
     emotion_analysis |->
         [emotion_score |-> IF "emotion_score" \in DOMAIN result THEN result.emotion_score
                            ELSE Pct(50),
          enthusiasm_level |-> IF "enthusiasm_level" \in DOMAIN result
                               THEN result.enthusiasm_level ELSE Pct(50),
          voice_pace |-> IF "voice_pace" \in DOMAIN result THEN result.voice_pace ELSE Fx(1),
          tone_analysis |-> IF "tone_analysis" \in DOMAIN result THEN <<result.tone_analysis>>
                            ELSE <<>>]]

\* The try block of POST /transcribe: the two validations raise
\* HTTPException(400) inside it, and result["..."] raises KeyError for a key
\* the result does not have.
TranscribeEndpointTry(up, service) ==
    IF up.content_type = "none" \/ ~StartsWithAudio(up.content_type)
    THEN HttpException(400, "File must be an audio file")
    ELSE IF ReadLen(up) = 0
    THEN HttpException(400, "Empty audio file")
    ELSE IF service.raised
    THEN Raised(service.exception)
    ELSE IF ~({"transcript", "transcription_time", "provider"} \subseteq DOMAIN service.value)
    THEN Raised("KeyError")
    ELSE Returned(TranscribeResponse(service.value))

\* POST /transcribe: `except Exception as e` catches whatever the try block
\* raised, HTTPException included, and raises HTTPException(500, str(e)).
TranscribeEndpoint(up, service) ==
    IF TranscribeEndpointTry(up, service).raised
    THEN [status |-> 500, body |-> <<>>]
    ELSE [status |-> 200, body |-> <<TranscribeEndpointTry(up, service).value>>]

----------------------------------------------------------------------------
(* app: requests to POST /chat and POST /transcribe *)

InitApp ==
    /\ startup \in [app : {"app.main"}, api_key : BOOLEAN, csv : CsvStates]
    /\ properties_df = LoadPropertiesOf("app", startup.csv)
    /\ pc = "serving"
    /\ calls = <<>>
    /\ upload = NoUpload
    /\ response = NoResponse
    /\ pending = {}
    /\ text = <<>>
    /\ requirements = EmptyRequirements
    /\ matching_properties = <<>>
    /\ web_matches = <<>>
    /\ base = <<>>
    /\ web_pc = "start"
    /\ emotion_data = <<>>
    /\ emotion_source = "none"

\* POST /chat, whole: the request, what generate_response did and the answer.
AppChat ==
    /\ pc = "serving"
    /\ startup.app = "app.main"
    /\ \E message \in AppMessages, emotion \in AppProfiles, fault \in Faults, rag \in BOOLEAN :
           response' =
               [endpoint |-> "/chat",
                request |-> [message |-> message, emotion_data |-> emotion, rag_context |-> rag],
                fault |-> fault,
                result |-> GenerateResponse(startup.api_key, fault, message, emotion),
                answer |-> ChatEndpoint(
                               GenerateResponse(startup.api_key, fault, message, emotion), rag)]
    /\ pc' = "answered"
    /\ UNCHANGED <<properties_df, startup, calls, upload, pending>>
    /\ UNCHANGED request_vars

\* What POST /transcribe leaves in `response`: the upload as it was handed
\* in, what the service returned if it was called, and the answer.
TranscribeAnswer(up, fault, heard) ==
    [endpoint |-> "/transcribe",
     request |-> up,
     fault |-> fault,
     heard |-> heard,
     service |-> IF StartsWithAudio(up.content_type) /\ ReadLen(up) > 0
                 THEN <<TranscribeAudio(startup.api_key, fault, heard)>>
                 ELSE <<>>,
     answer |-> TranscribeEndpoint(up, TranscribeAudio(startup.api_key, fault, heard))]

\* POST /transcribe up to `await audio_file.read()`: the content type is
\* validated before the read, so an upload that fails it is answered here.
AppTranscribeStart ==
    /\ pc = "serving"
    /\ startup.app = "app.main"
    /\ pending = {}
    /\ \E ct \in ContentTypes, n \in UploadSizes :
           IF StartsWithAudio(ct)
           THEN /\ pending' = {Suspended("/transcribe", [NewUpload(n) EXCEPT !.content_type = ct])}
                /\ UNCHANGED <<upload, response, pc>>
           ELSE /\ response' = TranscribeAnswer([NewUpload(n) EXCEPT !.content_type = ct],
                                                "none", <<>>)
                /\ upload' = [NewUpload(n) EXCEPT !.content_type = ct]
                /\ pc' = "answered"
                /\ UNCHANGED pending
    /\ UNCHANGED <<properties_df, startup, calls>>
    /\ UNCHANGED request_vars

\* POST /transcribe from the read to the answer.
AppTranscribe ==
    /\ \E r \in pending, fault \in TranscriptionFaults, heard \in HeardTexts :
           /\ r.endpoint = "/transcribe"
           /\ (ReadLen(r.upload) = 0) => (fault = "none" /\ heard = <<>>)
           /\ response' = TranscribeAnswer(r.upload, fault, heard)
           /\ upload' = AfterRead(r.upload)
           /\ pending' = pending \ {r}
    /\ pc' = "answered"
    /\ UNCHANGED <<properties_df, startup, calls>>
    /\ UNCHANGED request_vars

NextApp == AppChat \/ AppTranscribeStart \/ AppTranscribe

SpecApp == InitApp /\ [][NextApp]_vars

----------------------------------------------------------------------------
(* Properties *)

RowSet(df) == {df[i] : i \in 1..Len(df)}

CatalogIndex(id) == CHOOSE i \in 1..Len(properties_df) : properties_df[i].unique_id = id

RowMeetsPresentBounds(r, req) ==
    /\ req.min_size # None => r.size >= req.min_size
    /\ req.max_size # None => r.size <= req.max_size
    /\ req.max_rent_per_sf # None => r.rent <= req.max_rent_per_sf
    /\ Len(req.preferred_locations) > 0 =>
           \E k \in 1..Len(req.preferred_locations) :
               AddressContains(r.address, req.preferred_locations[k])

\* The catalog rows that survive the filters of the requirements record: every
\* bound that is set (not None) holds.
Survivors == {i \in 1..Len(properties_df) : RowMeetsPresentBounds(properties_df[i], requirements)}

\* C1: every row returned by _find_matching_properties satisfies every bound
\* of the requirements that is not None (size >= min_size, size <= max_size,
\* rent <= max_rent_per_sf, address contains a preferred location).
C1_ReturnedRowsMeetPresentBounds ==
    pc = "matched" =>
        \A i \in 1..Len(matching_properties) :
            RowMeetsPresentBounds(matching_properties[i], requirements)

ScenarioRequirements ==
    [EmptyRequirements EXCEPT !.min_size = Fx(2000), !.max_size = Fx(3000),
                              !.max_rent_per_sf = Fx(30),
                              !.preferred_locations = <<"downtown">>]

\* C2: on the three sample rows, min_size 2000, max_size 3000, max rent 30 and
\* preferred location downtown return exactly the 2500 SF Downtown row.
C2_ScenarioReturnsDowntownRow ==
    (pc = "matched" /\ properties_df = SampleData /\ requirements = ScenarioRequirements)
        => matching_properties = <<PROP001>>

C2_Witness ==
    /\ pc = "matched"
    /\ properties_df = SampleData
    /\ requirements = ScenarioRequirements
    /\ Len(matching_properties) = 1

\* The constraints final_web_app.find_matching_properties detects in the
\* text: the people count and the budget (<<>> if none), the location keywords.
LocationsFound(t) ==
    {k \in 1..Len(WebLocationKeywords) : InText(t, WebLocationKeywords[k].keyword)}

Detected(t) ==
    [people |-> WebPeopleCount(t), budget |-> WebBudget(t), locations |-> LocationsFound(t)]

WebDetected == Detected(LowerText(text))

MeetsWebSize(r, d) ==
    r.size >= Fx(d.people[1] * 100) /\ r.size <= Fx(d.people[1] * 200)

MeetsWebBudget(r, d) == r.rent * 10 <= d.budget[1] * 12

MeetsWebLocation(r, d) ==
    \E k \in d.locations : AddressContains(r.address, WebLocationKeywords[k].location)

MeetsAllWebConstraints(r, d) ==
    /\ d.people # <<>> => MeetsWebSize(r, d)
    /\ d.budget # <<>> => MeetsWebBudget(r, d)
    /\ d.locations # {} => MeetsWebLocation(r, d)

MeetsSomeWebConstraint(r, d) ==
    \/ d.people # <<>> /\ MeetsWebSize(r, d)
    \/ d.budget # <<>> /\ MeetsWebBudget(r, d)
    \/ d.locations # {} /\ MeetsWebLocation(r, d)

NoRowMeetsAll(d) == \A i \in 1..Len(properties_df) : ~MeetsAllWebConstraints(properties_df[i], d)

NoRowMeetsAny(d) == \A i \in 1..Len(properties_df) : ~MeetsSomeWebConstraint(properties_df[i], d)

ReturnedMeetAll(d) == \A i \in 1..Len(web_matches) : MeetsAllWebConstraints(web_matches[i], d)

\* C3: when no row survives the filters derived from the request, both
\* matchers return the empty sequence.
C3_NoFallbackInEitherMatcher ==
    /\ (pc = "matched" /\ Survivors = {}) => matching_properties = <<>>
    /\ (web_pc = "done" /\ NoRowMeetsAll(WebDetected)) => web_matches = <<>>

\* C4: the returned rows are ordered by culture_score descending, and rows
\* with equal culture_score keep their relative catalog order.
C4_StableDescendingCultureOrder ==
    pc = "matched" =>
        \A i, j \in 1..Len(matching_properties) :
            i < j =>
                IF Len(requirements.culture_keywords) > 0
                THEN \/ matching_properties[i].culture_score > matching_properties[j].culture_score
                     \/ /\ matching_properties[i].culture_score = matching_properties[j].culture_score
                        /\ CatalogIndex(matching_properties[i].unique_id)
                               < CatalogIndex(matching_properties[j].unique_id)
                ELSE CatalogIndex(matching_properties[i].unique_id)
                         < CatalogIndex(matching_properties[j].unique_id)

\* C5: the matcher returns at most 3 rows and at most as many rows as survive
\* all filters.
C5_AtMostTopNAndSurvivors ==
    pc = "matched" =>
        /\ Len(matching_properties) <= 3
        /\ Len(matching_properties) <= Cardinality(Survivors)

\* C6: setting one absent bound never adds a surviving row and never makes
\* the result longer.
C6_MonotonicNarrowing ==
    (pc = "matched" /\ base # <<>>) =>
        /\ Len(matching_properties) <= Len(base[1].result)
        /\ RowSet(FilteredDf(properties_df, requirements)) \subseteq RowSet(base[1].survivors)

C6_Witness ==
    /\ pc = "matched"
    /\ base # <<>>
    /\ Len(matching_properties) < Len(base[1].result)
    /\ Len(matching_properties) > 0

\* C7: every row final_web_app.find_matching_properties returns
\* satisfies all the constraints detected in the message at once (looked at
\* where some catalog row meets a detected constraint, so that the rows
\* returned are matches and not the first rows of the catalog).
C7_WebConstraintsConjunctive ==
    (web_pc = "done" /\ ~NoRowMeetsAny(WebDetected)) => ReturnedMeetAll(WebDetected)

\* The square-footage mentions as a reader takes them: a unit word and the
\* whole number (digits and thousands separators) written before it.
RECURSIVE NumeralStart(_, _)
NumeralStart(t, e) ==
    IF e > 1 /\ (IsDigit(t[e - 1]) \/ t[e - 1] = ",") THEN NumeralStart(t, e - 1) ELSE e

RECURSIVE BeforeSpaces(_, _)
BeforeSpaces(t, i) ==
    IF i > 1 /\ t[i - 1] = " " THEN BeforeSpaces(t, i - 1) ELSE i

\* The number written before the word at position u (0 digits: no number).
NumeralBefore(t, u) ==
    SubSeq(t, NumeralStart(t, BeforeSpaces(t, u)), BeforeSpaces(t, u) - 1)

StatedSqft(t) ==
    {ToInt(NumeralBefore(t, u)) :
        u \in {v \in 1..Len(t) : t[v] \in SizeUnits /\ Len(NumeralBefore(t, v)) > 0}}

NoHeadcountWords(t) == \A i \in 1..Len(t) : t[i] \notin {"people", "team", "employees"}

SetMin(S) == CHOOSE x \in S : \A y \in S : x <= y

SetMax(S) == CHOOSE x \in S : \A y \in S : x >= y

\* C8: when the text holds at least two explicit square-footage mentions with
\* different values (and no head count or dollar amount), min_size is the
\* smallest and max_size the largest mentioned value.
C8_ExplicitSqftRange ==
    (pc # "start" /\ NoHeadcountWords(LowerText(text)) /\ ~InText(text, "$")
        /\ Cardinality(StatedSqft(LowerText(text))) >= 2)
    => /\ requirements.min_size = Fx(SetMin(StatedSqft(LowerText(text))))
       /\ requirements.max_size = Fx(SetMax(StatedSqft(LowerText(text))))

\* The texts whose only size mention is "N people", N written in digits.
PeoplePositions(t) == {i \in 1..Len(t) : t[i] = "people"}

OnlyPeopleMention(t) ==
    /\ Cardinality(PeoplePositions(t)) = 1
    /\ \A i \in 1..Len(t) : t[i] \notin SizeUnits \cup {"of", "employees"}
    /\ \A u \in PeoplePositions(t) :
           /\ Len(NumeralBefore(t, u)) > 0
           /\ \A k \in 1..Len(NumeralBefore(t, u)) : IsDigit(NumeralBefore(t, u)[k])

PeopleMentioned(t) == ToInt(NumeralBefore(t, CHOOSE u \in PeoplePositions(t) : TRUE))

\* C9: a text whose only size mention is "N people" yields min_size = N*125
\* and max_size = min_size*1.5.
C9_PeopleOnlySizes ==
    (pc # "start" /\ OnlyPeopleMention(LowerText(text)))
    => /\ requirements.min_size = Fx(PeopleMentioned(LowerText(text)) * 125)
       /\ requirements.max_size = (Fx(PeopleMentioned(LowerText(text)) * 125) * 3) \div 2

C9_Witness ==
    /\ pc = "ready"
    /\ OnlyPeopleMention(LowerText(text))
    /\ PeopleMentioned(LowerText(text)) = 25
    /\ requirements.min_size = Fx(3125)
    /\ requirements.max_size = 46875000

\* max(sizes) if the sizes hold more than one distinct value, else min * 1.5
MaxSizeOfDistinct(sizes) ==
    IF Cardinality({sizes[i] : i \in 1..Len(sizes)}) > 1
    THEN Fx(SeqMax(sizes)) ELSE (Fx(SeqMin(sizes)) * 3) \div 2

\* C10: with a non-empty size list, min_size is its minimum and max_size is
\* its maximum only if it holds more than one distinct value; if all values
\* are equal, max_size = min_size*1.5.
C10_MaxOnlyForDistinctSizes ==
    (pc # "start" /\ Len(CollectSizes(LowerText(text))) > 0)
    => /\ requirements.min_size = Fx(SeqMin(CollectSizes(LowerText(text))))
       /\ requirements.max_size = MaxSizeOfDistinct(CollectSizes(LowerText(text)))

\* C11: after extraction and the emotion adjustment (when a profile is
\* supplied), if min_size and max_size are both present then
\* min_size <= max_size.
C11_MinSizeAtMostMaxSize ==
    (pc # "start" /\ requirements.min_size # None /\ requirements.max_size # None)
        => requirements.min_size <= requirements.max_size

C11_Witness ==
    /\ pc = "ready"
    /\ emotion_data # <<>>
    /\ IsHighEnthusiasm(emotion_data[1])
    /\ requirements.min_size = Fx(500)
    /\ requirements.max_size > Fx(3125)

\* C12: each of min_size, max_size and max_rent_per_sf produced by
\* _extract_requirements is either absent (None) or strictly positive.
C12_BoundsAbsentOrPositive ==
    pc # "start" =>
        /\ requirements.min_size = None \/ requirements.min_size > 0
        /\ requirements.max_size = None \/ requirements.max_size > 0
        /\ requirements.max_rent_per_sf = None \/ requirements.max_rent_per_sf > 0

\* The figures a pattern family finds in the text, as rent per square foot.
PerSfFigures(t) ==
    LET caps == FindAll("budget_per_sf", t, 1) IN {ToFloat(caps[i]) : i \in 1..Len(caps)}

MonthlyFigures(t) ==
    LET caps == FindAll("budget_month", t, 1)
    IN  {(ToFloat(caps[i]) * 12) \div 2000 : i \in 1..Len(caps)}

GenericFigures(t) ==
    LET caps == FindAll("budget_generic", t, 1) IN {ToFloat(caps[i]) : i \in 1..Len(caps)}

BudgetByPriority(budget, persf, monthly, generic) ==
    IF persf # {} THEN budget \in persf
    ELSE IF monthly # {} THEN budget \in monthly
    ELSE IF generic # {} THEN budget \in generic
    ELSE budget = None

BudgetKeptByPriority(t) ==
    BudgetByPriority(requirements.max_rent_per_sf, PerSfFigures(t), MonthlyFigures(t),
                     GenericFigures(t))

\* C13: the budget kept is a figure of the highest-priority pattern family
\* that matches anywhere in the text (per square foot, then monthly, then
\* generic 'budget ... $N'), whatever the order of the phrasings in the text;
\* no family matching means no budget.
C13_BudgetFamilyPriority ==
    pc # "start" => BudgetKeptByPriority(LowerText(text))

\* a generic mention and, after it, a per-square-foot mention of another figure
C13_Witness ==
    /\ pc = "ready"
    /\ \E i, j \in 1..Len(text) :
           /\ i < j
           /\ MatchAt("budget_generic", LowerText(text), i).found
           /\ MatchAt("budget_per_sf", LowerText(text), j).found
    /\ requirements.max_rent_per_sf \in PerSfFigures(LowerText(text))
    /\ requirements.max_rent_per_sf \notin GenericFigures(LowerText(text))

\* The end (exclusive) of the numeral, digits and thousands separators, that
\* starts at position i.
RECURSIVE NumeralEnd(_, _)
NumeralEnd(t, i) ==
    IF i <= Len(t) /\ (IsDigit(t[i]) \/ t[i] = ",") THEN NumeralEnd(t, i + 1) ELSE i

\* "$M per month" written at position i, as a reader takes it.
IsMonthlyMention(t, i) ==
    /\ t[i] = "$"
    /\ NumeralEnd(t, i + 1) > i + 1
    /\ NumeralEnd(t, i + 1) + 3 <= Len(t)
    /\ SubSeq(t, NumeralEnd(t, i + 1), NumeralEnd(t, i + 1) + 3) = <<" ", "per", " ", "month">>

DollarPositions(t) == {i \in 1..Len(t) : t[i] = "$"}

OnlyMonthlyMention(t) ==
    /\ Cardinality(DollarPositions(t)) = 1
    /\ \A i \in DollarPositions(t) : IsMonthlyMention(t, i)

MonthlyAmount(t) ==
    LET i == CHOOSE d \in DollarPositions(t) : TRUE
    IN  ToInt(SubSeq(t, i + 1, NumeralEnd(t, i + 1) - 1))

\* C14: a text whose only budget mention is "$M per month" yields
\* max_rent_per_sf = M*12/2000.
C14_MonthlyToPerSqFt ==
    (pc # "start" /\ OnlyMonthlyMention(LowerText(text)))
        => requirements.max_rent_per_sf = (Fx(MonthlyAmount(LowerText(text))) * 12) \div 2000

\* C15: for the message ChatScenarioText, extraction yields a min_size
\* between 2000 and 2500, max_rent_per_sf = 30, preferred_locations =
\* ['downtown'] and culture_keywords containing 'modern' and 'collaborative'.
C15_ChatScenarioRequirements ==
    (pc # "start" /\ text = ChatScenarioText)
        => /\ requirements.min_size >= Fx(2000)
           /\ requirements.min_size <= Fx(2500)
           /\ requirements.max_rent_per_sf = Fx(30)
           /\ requirements.preferred_locations = <<"downtown">>
           /\ InText(requirements.culture_keywords, "modern")
           /\ InText(requirements.culture_keywords, "collaborative")

C15_Witness ==
    /\ pc = "ready"
    /\ text = ChatScenarioText
    /\ requirements.min_size = Fx(20 * SfPerPerson)
    /\ requirements.culture_keywords = <<"collaborative", "modern">>

\* A step of _apply_emotion_filters.
IsFilterStep == pc = "extracted" /\ pc' = "ready"

\* The level a profile carries, the default if the key is absent.
Exceeds(level, default, threshold) ==
    IF level = None THEN default > threshold ELSE level > threshold

ScaledRent(before, scale) ==
    IF scale /\ before # None THEN (before * 12) \div 10 ELSE before

ScaledSize(before, scale) ==
    IF scale /\ before # None THEN (before * 11) \div 10 ELSE before

\* C16: _apply_emotion_filters scales max_rent_per_sf by 1.2 and max_size by
\* 1.1 exactly when enthusiasm_level > 0.7 and the bound is set; an absent
\* bound stays absent, min_size never changes, and nothing changes when
\* enthusiasm_level <= 0.7.
C16_EnthusiasmScalesSetBounds ==
    [][IsFilterStep =>
          /\ requirements'.min_size = requirements.min_size
          /\ requirements'.max_rent_per_sf =
                 ScaledRent(requirements.max_rent_per_sf,
                            Exceeds(emotion_data[1].enthusiasm_level, Pct(50), Pct(70)))
          /\ requirements'.max_size =
                 ScaledSize(requirements.max_size,
                            Exceeds(emotion_data[1].enthusiasm_level, Pct(50), Pct(70)))]_vars

\* '$30 per square foot' and '25 people' under an enthusiasm of 0.71
C16_Witness ==
    /\ pc = "ready"
    /\ emotion_data # <<>>
    /\ emotion_data[1].enthusiasm_level = Pct(71)
    /\ requirements.min_size = Fx(3125)
    /\ requirements.max_size = 51562500
    /\ requirements.max_rent_per_sf = Fx(36)

AppendedKeywords(emotion) ==
    (IF Exceeds(emotion.tone_analysis.excited, 0, Pct(60))
     THEN <<"modern", "innovative", "tech">> ELSE <<>>)
    \o (IF Exceeds(emotion.tone_analysis.professional, 0, Pct(70))
        THEN <<"professional", "corporate">> ELSE <<>>)

\* C17: _apply_emotion_filters appends 'modern', 'innovative', 'tech' to
\* culture_keywords exactly when the excited tone is > 0.6 and 'professional',
\* 'corporate' exactly when the professional tone is > 0.7; the keywords found
\* before stay in place at the front.
C17_ToneAppendsCultureKeywords ==
    [][IsFilterStep =>
          requirements'.culture_keywords =
              requirements.culture_keywords \o AppendedKeywords(emotion_data[1])]_vars

C17_Witness ==
    /\ pc = "ready"
    /\ emotion_data # <<>>
    /\ emotion_data[1].tone_analysis.excited = Pct(61)
    /\ emotion_data[1].tone_analysis.professional = Pct(80)
    /\ requirements.culture_keywords =
           <<"tech", "modern", "innovative", "tech", "professional", "corporate">>

\* The number of distinct culture keywords the address holds.
DistinctCultureScore(row, keywords) ==
    Cardinality({kw \in {keywords[k] : k \in 1..Len(keywords)} :
                    AddressContains(row.address, kw)})

\* C18: the culture_score of every returned record is the number of distinct
\* culture keywords that occur in its address; a keyword listed twice counts
\* once.
C18_CultureScoreCountsDistinctKeywords ==
    (pc = "matched" /\ Len(requirements.culture_keywords) > 0)
        => \A i \in 1..Len(matching_properties) :
               matching_properties[i].culture_score
                   = DistinctCultureScore(matching_properties[i], requirements.culture_keywords)

OnlyBlanks(t) == \A i \in 1..Len(t) : t[i] = " "

\* C19: for the empty string and for a whitespace-only text, both
\* analyze_emotion_from_text and _basic_emotion_analysis return enthusiasm,
\* professional, confidence and uncertainty levels of 0 and emotion_score 0.5.
C19_BlankTextIsNeutral ==
    (emotion_source \in {"analyze_emotion_from_text", "_basic_emotion_analysis"}
     /\ OnlyBlanks(text))
        => /\ emotion_data[1].enthusiasm_level = 0
           /\ emotion_data[1].tone_analysis.excited = 0
           /\ emotion_data[1].tone_analysis.professional = 0
           /\ emotion_data[1].tone_analysis.confident = 0
           /\ emotion_data[1].tone_analysis.uncertain = 0
           /\ emotion_data[1].emotion_score = Pct(50)

InUnitInterval(x) == x >= 0 /\ x <= Fx(1)

\* C20: every profile produced by analyze_emotion_from_text,
\* _basic_emotion_analysis and the mock transcription has emotion_score and
\* the enthusiasm, professional, confident and uncertain levels in [0, 1].
C20_ProfileInUnitInterval ==
    emotion_source \in {"analyze_emotion_from_text", "_basic_emotion_analysis",
                        "_get_mock_transcription"}
        => /\ InUnitInterval(emotion_data[1].emotion_score)
           /\ InUnitInterval(emotion_data[1].enthusiasm_level)
           /\ InUnitInterval(emotion_data[1].tone_analysis.excited)
           /\ InUnitInterval(emotion_data[1].tone_analysis.professional)
           /\ InUnitInterval(emotion_data[1].tone_analysis.confident)
           /\ InUnitInterval(emotion_data[1].tone_analysis.uncertain)

\* enthusiasm and confidence both saturated: 0.5 + 2 * 0.3 is cut to 1
C20_Witness ==
    /\ emotion_source = "analyze_emotion_from_text"
    /\ emotion_data[1].enthusiasm_level = Fx(1)
    /\ emotion_data[1].tone_analysis.confident = Fx(1)
    /\ emotion_data[1].tone_analysis.uncertain = 0
    /\ emotion_data[1].emotion_score = Fx(1)

----------------------------------------------------------------------------
(* The catalog and the state kept between requests *)

\* C21: after any sequence of requests (get_property_recommendations in the
\* app; /api/v1/chat, /api/v1/transcribe and /api/v1/converse in
\* final_web_app) the in-memory catalog is the catalog as loaded at startup:
\* the same rows in the same order with the same columns.
C21_CatalogAsLoaded ==
    pc = "serving" => properties_df = LoadPropertiesOf(startup.app, startup.csv)

\* A session that has served MaxCalls requests, one of which scored the rows
\* for culture keywords with no filter taken.
C21_Witness ==
    /\ pc = "serving"
    /\ Len(calls) >= MaxCalls
    /\ \E i \in 1..Len(calls) :
           /\ calls[i].fn = "get_property_recommendations"
           /\ Len(calls[i].matcher.requirements.culture_keywords) > 0
           /\ ~AnyFilterApplied(calls[i].matcher.requirements)
           /\ Len(calls[i].matcher.rows) > 0

\* C22: no state is kept between requests: whatever calls of
\* get_property_recommendations, find_matching_properties and
\* analyze_emotion_from_text were served before or in between, two calls of
\* the same function with equal arguments returned equal results, and every
\* call of get_property_recommendations left the conversation_history and the
\* emotion_data it was given as they were (the other two functions take a
\* str).
C22_EqualArgumentsEqualResults ==
    /\ \A i, j \in 1..Len(calls) :
           (calls[i].fn = calls[j].fn /\ calls[i].args = calls[j].args)
           => calls[i].result = calls[j].result
    /\ \A i \in 1..Len(calls) :
           calls[i].fn = "get_property_recommendations"
           => calls[i].args_after = calls[i].args

\* Two calls of get_property_recommendations with equal arguments, an emotion
\* profile that changed their requirements, and a sort that had rows of equal
\* score to order, with a call of other arguments in between.
C22_Witness ==
    \E i, k, j \in 1..Len(calls) :
        /\ i < k /\ k < j
        /\ calls[i].fn = "get_property_recommendations"
        /\ calls[j].fn = "get_property_recommendations"
        /\ calls[i].args = calls[j].args
        /\ calls[k].args # calls[i].args
        /\ ProfileTruthy(calls[i].args[2])
        /\ calls[i].matcher.requirements
               # ExtractRequirements(FullConversation(calls[i].args[1]))
        /\ \E a, b \in 1..Len(calls[i].matcher.rows) :
               /\ a # b
               /\ calls[i].matcher.rows[a].culture_score
                      = calls[i].matcher.rows[b].culture_score
        /\ startup.argsort # StableArgsort

\* C23: a chat request that carries an emotion profile, the empty profile {}
\* included, is answered without running the text heuristic and with the
\* supplied profile used as it is; the heuristic runs only for a request
\* without a profile.
C23_SuppliedProfileUsed ==
    (response.endpoint = "/api/v1/chat" /\ response.supplied # <<>>)
    => (response.emotion_source = "request" /\ response.emotion_used = response.supplied)

----------------------------------------------------------------------------
(* Failures of the collaborators *)

\* C24: LLMService.generate_response never raises to its caller: without a
\* client, or when property matching, prompt building or the LLM call fails,
\* it returns the mock response with response, processing_time, tokens_used
\* and model, so that POST /chat answers every well-formed request with 200.
C24_GenerateResponseNeverRaises ==
    response.endpoint = "/chat"
    => /\ ~response.result.raised
       /\ DOMAIN response.result.value
              = {"response", "processing_time", "tokens_used", "model"}
       /\ (~startup.api_key \/ response.fault # "none")
              => response.result.value.model = "mock-model"
       /\ response.answer.status = 200

\* The built-in sample set of the program that started.
BuiltInSample == IF startup.app = "app" THEN SampleData ELSE WebSampleData

\* C25: when data/properties.csv is missing, unreadable or unparseable at
\* startup the loader does not fail: the catalog is the built-in sample set
\* (3 records in PropertyMatchingService, 5 in final_web_app) and every later
\* request is served from it.
C25_SampleCatalogOnLoadFailure ==
    (pc = "serving" /\ startup.csv # "loaded")
    => /\ properties_df = BuiltInSample
       /\ Len(properties_df) = IF startup.app = "app" THEN 3 ELSE 5
       /\ \A i \in 1..Len(calls) :
              /\ calls[i].fn = "get_property_recommendations"
                     => /\ calls[i].matcher.catalog = BuiltInSample
                        /\ calls[i].matcher.rows
                               \in FindMatchingProperties(BuiltInSample,
                                                          calls[i].matcher.requirements)
              /\ calls[i].fn = "find_matching_properties"
                     => calls[i].result
                            = WebFindMatchingProperties(BuiltInSample, calls[i].args[1])

\* final_web_app started with an unparseable file and has served MaxCalls
\* requests, a converse among them.
C25_Witness ==
    /\ pc = "serving"
    /\ startup.app = "final_web_app"
    /\ startup.csv = "unparseable"
    /\ Len(calls) >= MaxCalls
    /\ response.endpoint = "/api/v1/converse"
    /\ Len(properties_df) = 5

\* C26: called on a catalog of zero records (or with no catalog) the matcher
\* returns the empty list, whatever the requirements record, and no error.
C26_EmptyCatalogEmptyResult ==
    Len(properties_df) = 0
    => /\ FindMatchingProperties(properties_df, requirements) = {<<>>}
       /\ pc = "matched" => matching_properties = <<>>

\* The matcher has returned for an empty catalog and a requirements record
\* with bounds, locations and culture keywords.
C26_Witness ==
    /\ pc = "matched"
    /\ Len(properties_df) = 0
    /\ Truthy(requirements.min_size)
    /\ Truthy(requirements.max_rent_per_sf)
    /\ Len(requirements.preferred_locations) > 0
    /\ Len(requirements.culture_keywords) > 0
    /\ matching_properties = <<>>

\* C27: POST /transcribe answers 400 when the upload's content type is
\* missing or does not start with 'audio/', 400 when the audio has zero
\* bytes, and 500 only for other failures.
C27_ValidationAnswers400 ==
    response.endpoint = "/transcribe"
    => /\ (response.request.content_type = "none"
              \/ ~StartsWithAudio(response.request.content_type))
          => response.answer.status = 400
       /\ (StartsWithAudio(response.request.content_type) /\ response.request.size = 0)
          => response.answer.status = 400
       /\ response.answer.status = 500
          => (StartsWithAudio(response.request.content_type) /\ response.request.size > 0)

\* C28: the transcript POST /api/v1/converse returns for an upload is the
\* mock transcript selected by the upload's size,
\* mock_transcripts[len(audio) mod 4], the one POST /api/v1/transcribe returns
\* for the same upload.
C28_ConverseTranscriptBySize ==
    response.endpoint = "/api/v1/converse"
    => /\ response.transcript = TranscriptOfLen(upload.size)
       /\ response.transcript = TranscribeBody(NewUpload(upload.size)).transcript

\* The keys of a transcription result.
TranscriptionKeys ==
    {"transcript", "confidence", "transcription_time", "provider", "emotion_score",
     "enthusiasm_level", "voice_pace", "tone_analysis"}

\* C29: TranscriptionService.transcribe_audio never raises: without a client,
\* or when the Whisper call or the emotion analysis fails, it returns the
\* fixed mock transcription with provider 'mock'; on success the result has
\* the same keys and provider 'openai'.
C29_TranscribeAudioNeverRaises ==
    (response.endpoint = "/transcribe" /\ response.service # <<>>)
    => /\ ~response.service[1].raised
       /\ DOMAIN response.service[1].value = TranscriptionKeys
       /\ IF startup.api_key /\ response.fault = "none"
          THEN /\ response.service[1].value.provider = "openai"
               /\ response.service[1].value.transcript = response.heard
          ELSE response.service[1].value = GetMockTranscription

\* The service was called with a client and Whisper heard "perfect".
C29_Witness ==
    /\ response.endpoint = "/transcribe"
    /\ response.service # <<>>
    /\ startup.api_key
    /\ response.fault = "none"
    /\ response.heard = <<"perfect">>
    /\ response.service[1].value.provider = "openai"
    /\ response.answer.status = 200

----------------------------------------------------------------------------
(* The order of the rows final_web_app.find_matching_properties returns *)

\* The patterns of the list that match somewhere in the text.
PatternsFound(pats, t) == {k \in 1..Len(pats) : Len(FindAll(pats[k], t, 1)) > 0}

\* The capture of the first of the patterns `found`, at its leftmost match:
\* <<>> or <<capture>>.
CaptureOfFirst(pats, t, found) ==
    IF found = {} THEN <<>>
    ELSE <<FindAll(pats[CHOOSE k \in found : \A m \in found : k <= m], t, 1)[1]>>

FirstPatternCapture(pats, t) == CaptureOfFirst(pats, t, PatternsFound(pats, t))

NumberOf(capture) == IF capture = <<>> THEN <<>> ELSE <<ToInt(capture[1])>>

AmountIn(number) == IF number = <<>> THEN <<>> ELSE <<Fx(number[1])>>

\* The constraints taken from the first people pattern and the first budget
\* pattern that match, and the location keywords found.
FirstDetectedIn(t) ==
    [people |-> NumberOf(FirstPatternCapture(PeoplePatterns, t)),
     budget |-> AmountIn(NumberOf(FirstPatternCapture(WebBudgetPatterns, t))),
     locations |-> LocationsFound(t)]

FirstDetected == FirstDetectedIn(LowerText(text))

\* The catalog rows that are in some group of matches.
MatchedRows(d) ==
    {i \in 1..Len(properties_df) : MeetsSomeWebConstraint(properties_df[i], d)}

\* The first location keyword found in the text that the row's address holds.
FirstLocationKeyword(i, d) ==
    CHOOSE k \in d.locations :
        /\ AddressContains(properties_df[i].address, WebLocationKeywords[k].location)
        /\ \A m \in d.locations :
               AddressContains(properties_df[i].address, WebLocationKeywords[m].location)
               => k <= m

\* The place of catalog row i: its first group, then catalog order.
GroupThenCatalogOrder(i, d) ==
    IF d.people # <<>> /\ MeetsWebSize(properties_df[i], d) THEN 100 + i
    ELSE IF d.budget # <<>> /\ MeetsWebBudget(properties_df[i], d) THEN 200 + i
    ELSE 300 + i

\* The place of catalog row i: its first group; within the location group the
\* first keyword that holds it, in the order of location_keywords; then
\* catalog order.
GroupThenKeywordOrder(i, d) ==
    IF d.people # <<>> /\ MeetsWebSize(properties_df[i], d) THEN 100 + i
    ELSE IF d.budget # <<>> /\ MeetsWebBudget(properties_df[i], d) THEN 200 + i
    ELSE 300 + 10 * FirstLocationKeyword(i, d) + i

\* The matched rows that are the first of their unique_id by place.
FirstOccurrences(Place(_, _), d) ==
    {i \in MatchedRows(d) :
        \A k \in MatchedRows(d) :
            properties_df[k].unique_id = properties_df[i].unique_id => Place(i, d) <= Place(k, d)}

\* The n-th of the rows `kept` by ascending place.
NthByPlace(Place(_, _), d, kept, n) ==
    CHOOSE i \in kept : Cardinality({k \in kept : Place(k, d) < Place(i, d)}) = n - 1

\* The first occurrences by ascending place, at most three of them.
LowestPlaces(Place(_, _), d) ==
    LET kept == FirstOccurrences(Place, d)
    IN  [n \in 1..Min2(TopN, Cardinality(kept)) |-> properties_df[NthByPlace(Place, d, kept, n)]]

AtMostThreeDistinct ==
    /\ Len(web_matches) <= 3
    /\ \A i, j \in 1..Len(web_matches) :
           i # j => web_matches[i].unique_id # web_matches[j].unique_id

\* C30 as stated: find_matching_properties returns at most 3 records with
\* distinct unique_id, the size-range matches first, then the budget matches,
\* then the location matches, each group in catalog order and a record at its
\* first occurrence, the size range and the budget taken from the first
\* people pattern and the first budget pattern that match.
C30_GroupsInCatalogOrder ==
    web_pc = "done"
    => /\ AtMostThreeDistinct
       /\ MatchedRows(FirstDetected) # {}
              => web_matches = LowestPlaces(GroupThenCatalogOrder, FirstDetected)

\* C30 amended: at most 3 records are returned. When some catalog record meets
\* a detected constraint, no two of them share a unique_id and they are the
\* size-range matches, then the budget matches, then the location matches
\* keyword by keyword in the order of location_keywords (downtown, midtown,
\* uptown, financial, tech, creative, arts), the matches of one keyword in
\* catalog order, a record kept at its first occurrence. When none does, they
\* are the first 3 catalog records as they are.
C30_LocationGroupInKeywordOrder ==
    web_pc = "done"
    => /\ Len(web_matches) <= 3
       /\ IF MatchedRows(FirstDetected) # {}
          THEN /\ AtMostThreeDistinct
               /\ web_matches = LowestPlaces(GroupThenKeywordOrder, FirstDetected)
          ELSE web_matches = HeadN(properties_df, TopN)

\* Location matches of two keywords returned against catalog order, from a
\* catalog in which a matched record shares its unique_id with an earlier one.
C30_Witness ==
    /\ web_pc = "done"
    /\ properties_df = DuplicateIdData
    /\ Cardinality(FirstDetected.locations) >= 2
    /\ Len(web_matches) < Cardinality(MatchedRows(FirstDetected))
    /\ Len(web_matches) >= 2
    /\ web_matches[1] = properties_df[2]
    /\ web_matches[2] = properties_df[1]

\* The first catalog records returned with a unique_id twice among them.
C30_FallbackKeepsDuplicates ==
    /\ web_pc = "done"
    /\ MatchedRows(FirstDetected) = {}
    /\ \E i, j \in 1..Len(web_matches) :
           i # j /\ web_matches[i].unique_id = web_matches[j].unique_id

====
